---- MODULE Spec2Model ----
(***************************************************************************)
(* gh-hud: the dashboard runtime (App + GitHubService + Dashboard).        *)
(*                                                                         *)
(* The program is single threaded.  A step of the model is one run of the  *)
(* event loop: a handler runs from the event that woke it (a key, the      *)
(* refresh timer, the completion of an external `gh` command) up to its    *)
(* next suspension on an external command, or to its end.  An await that   *)
(* is answered from the GitHubService cache resolves in a microtask, so    *)
(* no key or timer event can run in between: such awaits do not end the    *)
(* step.                                                                   *)
(*                                                                         *)
(* Handlers are written as functions from the program state (a record s    *)
(* with one field per variable) to the next program state, so that the     *)
(* calls a handler makes compose as they do in the source.                 *)
(***************************************************************************)
EXTENDS Integers, Sequences, FiniteSets, TLC

VARIABLES
  \* the repositories as `gh` sees them, the wall clock, and the number of
  \* `gh` commands that have failed so far
  runStatus, now, faults,
  \* GitHubService
  cache,
  \* App
  isRefreshing, watchedWorkflows, completedWorkflows, oldestWorkflowTimestamp,
  jobs, refresh, resurrect, kill,
  \* Dashboard
  workflows, pullRequests, dockerServices, flatDockerServices, showPRs,
  showDocker, selectedIndex, selectedPRIndex, selectedDockerIndex,
  selectionMode, modalOpen, helpHidden, confirmBox, confirmArmed, focused,
  cols, rows, grid,
  \* the event log (Dashboard.logMessages), its filter level and the content
  \* of the debug box.  The environments that do not look at the history of
  \* the log keep only the entries that the last step appended.
  logged, logLevel, debugBox,
  \* the log panel (shown, height, redraw timer armed), the auto-show
  \* preference, the preferences file and whether writeFileSync can write it
  showDebug, debugBoxHeight, debugUpdateTimer, autoShowDebug, prefsFile,
  prefsWritable,
  \* the process has exited; the effects of the last step on the outside
  \* (writes of the preferences file, release of the terminal, exit), in order
  exited, effects,
  \* the pull requests open in the first repository as `gh` sees them, and
  \* the App's --prs flag and pull-request list
  ghPullRequests, appShowPRs, appPullRequests,
  \* the time of the last refresh that the status bar shows (Undefined: -1)
  lastRefreshTime,
  \* whether the stored run lists are marked with the query that stored them
  markQueries

vars == <<runStatus, now, faults, cache, isRefreshing, watchedWorkflows,
          completedWorkflows, oldestWorkflowTimestamp, jobs, refresh,
          resurrect, kill, workflows, pullRequests, dockerServices,
          flatDockerServices, showPRs, showDocker, selectedIndex,
          selectedPRIndex, selectedDockerIndex, selectionMode, modalOpen,
          helpHidden, confirmBox, confirmArmed, focused, cols, rows, grid,
          logged, logLevel, debugBox, showDebug, debugBoxHeight,
          debugUpdateTimer, autoShowDebug, prefsFile, prefsWritable, exited,
          effects, ghPullRequests, appShowPRs, appPullRequests,
          lastRefreshTime, markQueries>>

State ==
  [runStatus |-> runStatus, now |-> now, faults |-> faults, cache |-> cache,
   isRefreshing |-> isRefreshing, watchedWorkflows |-> watchedWorkflows,
   completedWorkflows |-> completedWorkflows,
   oldestWorkflowTimestamp |-> oldestWorkflowTimestamp, jobs |-> jobs,
   refresh |-> refresh, resurrect |-> resurrect, kill |-> kill,
   workflows |-> workflows, pullRequests |-> pullRequests,
   dockerServices |-> dockerServices,
   flatDockerServices |-> flatDockerServices, showPRs |-> showPRs,
   showDocker |-> showDocker, selectedIndex |-> selectedIndex,
   selectedPRIndex |-> selectedPRIndex,
   selectedDockerIndex |-> selectedDockerIndex,
   selectionMode |-> selectionMode, modalOpen |-> modalOpen,
   helpHidden |-> helpHidden, confirmBox |-> confirmBox,
   confirmArmed |-> confirmArmed, focused |-> focused, cols |-> cols,
   rows |-> rows, grid |-> grid, logged |-> logged, logLevel |-> logLevel,
   debugBox |-> debugBox, showDebug |-> showDebug,
   debugBoxHeight |-> debugBoxHeight, debugUpdateTimer |-> debugUpdateTimer,
   autoShowDebug |-> autoShowDebug, prefsFile |-> prefsFile,
   prefsWritable |-> prefsWritable, exited |-> exited, effects |-> effects,
   ghPullRequests |-> ghPullRequests, appShowPRs |-> appShowPRs,
   appPullRequests |-> appPullRequests, lastRefreshTime |-> lastRefreshTime,
   markQueries |-> markQueries]

Becomes(s) ==
  /\ runStatus' = s.runStatus
  /\ now' = s.now
  /\ faults' = s.faults
  /\ cache' = s.cache
  /\ isRefreshing' = s.isRefreshing
  /\ watchedWorkflows' = s.watchedWorkflows
  /\ completedWorkflows' = s.completedWorkflows
  /\ oldestWorkflowTimestamp' = s.oldestWorkflowTimestamp
  /\ jobs' = s.jobs
  /\ refresh' = s.refresh
  /\ resurrect' = s.resurrect
  /\ kill' = s.kill
  /\ workflows' = s.workflows
  /\ pullRequests' = s.pullRequests
  /\ dockerServices' = s.dockerServices
  /\ flatDockerServices' = s.flatDockerServices
  /\ showPRs' = s.showPRs
  /\ showDocker' = s.showDocker
  /\ selectedIndex' = s.selectedIndex
  /\ selectedPRIndex' = s.selectedPRIndex
  /\ selectedDockerIndex' = s.selectedDockerIndex
  /\ selectionMode' = s.selectionMode
  /\ modalOpen' = s.modalOpen
  /\ helpHidden' = s.helpHidden
  /\ confirmBox' = s.confirmBox
  /\ confirmArmed' = s.confirmArmed
  /\ focused' = s.focused
  /\ cols' = s.cols
  /\ rows' = s.rows
  /\ grid' = s.grid
  /\ logged' = s.logged
  /\ logLevel' = s.logLevel
  /\ debugBox' = s.debugBox
  /\ showDebug' = s.showDebug
  /\ debugBoxHeight' = s.debugBoxHeight
  /\ debugUpdateTimer' = s.debugUpdateTimer
  /\ autoShowDebug' = s.autoShowDebug
  /\ prefsFile' = s.prefsFile
  /\ prefsWritable' = s.prefsWritable
  /\ exited' = s.exited
  /\ effects' = s.effects
  /\ ghPullRequests' = s.ghPullRequests
  /\ appShowPRs' = s.appShowPRs
  /\ appPullRequests' = s.appPullRequests
  /\ lastRefreshTime' = s.lastRefreshTime
  /\ markQueries' = s.markQueries

(***************************************************************************)
(* Bounds of the model.                                                    *)
(***************************************************************************)
\* workflow runs that exist in the watched repositories
NumRuns == 2
\* the clock advances in steps of TickMs, at most MaxTicks times
MaxTicks == 1
TickMs == 6000
\* resurrect is not pressed once this many cards are displayed
MaxVisible == 3
\* at most this many `gh` commands fail in one run of the program
MaxFaults == 1
\* the snapshots that drive the navigation: cards, pull requests, compose
\* files and services per compose file
MaxCards == 3
MaxPRs == 2
MaxComposeFiles == 1
MaxServices == 2
\* the snapshots that drive the layout: cards, with or without a pull request
MaxLayoutCards == 10
MaxLayoutPRs == 1
\* the event log: messages appended in all, and messages appended while the
\* filter is looked at
MaxAppends == 105
MaxFilterAppends == 5
\* pull requests that open in the first repository
MaxOpenPRs == 1

(***************************************************************************)
(* Program constants.                                                      *)
(***************************************************************************)
cacheTimeout == 5000
DefaultLimit == 20
ResurrectLimit == 1
maxLogMessages == 100
DefaultDebugHeight == 5
minDebugHeight == 3
maxDebugHeight == 15

Repos == <<"A", "B", "C">>
RunIds == 1 .. NumRuns
RepoOf(id) == Repos[((id - 1) % Len(Repos)) + 1]
\* runs are numbered in the order they were created
CreatedAt(id) == id
Statuses == {"in_progress", "completed"}
\* what an external `gh run list` can do: answer, fail, or hit the rate limit
Outcomes == {"ok", "fail", "ratelimit"}

Min(a, b) == IF a < b THEN a ELSE b
Max(a, b) == IF a > b THEN a ELSE b

Run(id, status) == [id |-> id, status |-> status, createdAt |-> CreatedAt(id)]

Ids(seq) == {seq[i].id : i \in 1 .. Len(seq)}

Take(seq, n) == SubSeq(seq, 1, Min(n, Len(seq)))

\* Array.prototype.sort((a, b) => b.createdAt - a.createdAt): stable, newest first
RECURSIVE InsertDesc(_, _)
InsertDesc(r, sorted) ==
  IF sorted = <<>> THEN <<r>>
  ELSE IF Head(sorted).createdAt >= r.createdAt
       THEN <<Head(sorted)>> \o InsertDesc(r, Tail(sorted))
       ELSE <<r>> \o sorted

RECURSIVE SortInto(_, _)
SortInto(seq, acc) ==
  IF seq = <<>> THEN acc ELSE SortInto(Tail(seq), InsertDesc(Head(seq), acc))

SortByCreatedDesc(seq) == SortInto(seq, <<>>)

\* `gh run list --repo repo --limit limit [--created <before]` against the
\* repositories as they are now; before = 0 stands for no filter
RECURSIVE GhRunsFrom(_, _, _, _)
GhRunsFrom(n, st, repo, before) ==
  IF n = 0 THEN <<>>
  ELSE IF RepoOf(n) = repo /\ (before = 0 \/ CreatedAt(n) < before)
       THEN <<Run(n, st[n])>> \o GhRunsFrom(n - 1, st, repo, before)
       ELSE GhRunsFrom(n - 1, st, repo, before)

GhRunList(st, repo, limit, before) == Take(GhRunsFrom(NumRuns, st, repo, before), limit)


(***************************************************************************)
(* Dashboard                                                               *)
(***************************************************************************)
StartStep(s) == [s EXCEPT !.logged = <<>>, !.effects = <<>>]

\* Dashboard.log: the entry is appended whatever the filter level is, with
\* its text as the debug box will show it (the colour of its level and the
\* message); only the last maxLogMessages entries are kept
LogTypes == <<"info", "event", "debug", "trace", "error">>

TypeColor(type) ==
  CASE type = "info" -> "white"
    [] type = "event" -> "green"
    [] type = "debug" -> "cyan"
    [] type = "trace" -> "gray"
    [] type = "error" -> "red"
    [] OTHER -> "white"

\* a log without a capacity
SliceNever(seq, n) == seq

Slice(seq, n) == IF Len(seq) > n THEN SubSeq(seq, Len(seq) - n + 1, Len(seq)) ELSE seq

\* a log() that never arms the redraw timer
LogQuiet(s, type, message) ==
  [s EXCEPT !.logged =
     Slice(Append(@, [type |-> type, message |-> message,
                      formatted |-> <<TypeColor(type), message>>]),
           maxLogMessages)]

\* with the panel shown, the call arms the redraw timer unless it is armed
Log(s, type, message) ==
  [s EXCEPT !.logged =
     Slice(Append(@, [type |-> type, message |-> message,
                      formatted |-> <<TypeColor(type), message>>]),
           maxLogMessages),
            !.debugUpdateTimer = IF s.showDebug THEN TRUE ELSE @]

RECURSIVE LogAll(_, _, _)
LogAll(s, type, messages) ==
  IF messages = <<>> THEN s
  ELSE LogAll(Log(s, type, Head(messages)), type, Tail(messages))

\* updateDebugBox: the entries the filter level lets through, as formatted
LogLevels == {"info", "debug", "trace"}

LevelHierarchy(level) ==
  \* a level the table does not hold gives undefined, which no comparison
  \* with a number satisfies: it is below every threshold
  CASE level = "info" -> 0 [] level = "debug" -> 1 [] level = "trace" -> 2
    [] OTHER -> 0 - 1

\* a filter that lets every entry through
ShownAlways(type, level) == TRUE

Shown(type, level) ==
  IF type \in {"info", "event", "error"} THEN TRUE
  ELSE IF type = "debug" THEN LevelHierarchy(level) >= LevelHierarchy("debug")
  ELSE IF type = "trace" THEN LevelHierarchy(level) >= LevelHierarchy("trace")
  ELSE TRUE

UpdateDebugBox(s) ==
  LET Pass(msg) == Shown(msg.type, s.logLevel)
      filteredMessages == SelectSeq(s.logged, Pass)
  IN [s EXCEPT !.debugBox = [i \in 1 .. Len(filteredMessages) |->
                               filteredMessages[i].formatted]]

\* Math.ceil(Math.sqrt(n)) and Math.ceil(n / c)
RECURSIVE CeilSqrtFrom(_, _)
CeilSqrtFrom(n, k) == IF k * k >= n THEN k ELSE CeilSqrtFrom(n, k + 1)
CeilSqrt(n) == CeilSqrtFrom(n, 0)
\* a division that rounds down
FloorDiv(n, c) == n \div c

CeilDiv(n, c) == (n + c - 1) \div c

\* indexToCoords / coordsToIndex / isValidGridPosition
IndexToCoords(s, index) ==
  LET c == Max(1, s.cols) IN
  [row |-> index \div c,
   \* the remainder of JavaScript keeps the sign of the dividend
   col |-> IF index >= 0 THEN index % c ELSE 0 - ((0 - index) % c)]

CoordsToIndex(s, row, col) == row * s.cols + col

IsValidGridPosition(s, row, col) ==
  IF row < 0 \/ row >= s.rows \/ col < 0 \/ col >= s.cols THEN FALSE
  ELSE LET index == CoordsToIndex(s, row, col) IN
       index >= 0 /\ index < Len(s.workflows)

\* highlightSelected: the part that changes state (the rest repaints borders)
HighlightSelected(s) ==
  IF Len(s.grid) = 0 THEN s
  ELSE LET maxIndex == Min(Len(s.grid), Len(s.workflows)) - 1 IN
       IF s.selectedIndex > maxIndex
       THEN [s EXCEPT !.selectedIndex = Max(0, maxIndex)]
       ELSE s

\* layoutWorkflows: one card per run, or the single "no workflows" box
LayoutWorkflows(s) ==
  LET count == Len(s.workflows) IN
  IF count = 0 THEN [s EXCEPT !.grid = <<"empty">>]
  ELSE LET c == IF count = 1 THEN 1 ELSE Min(CeilSqrt(count), 3) IN
       HighlightSelected([s EXCEPT !.cols = c,
                                   !.rows = CeilDiv(count, c),
                                   !.grid = [i \in 1 .. count |-> "card"]])

\* formatDockerHeader: rebuilds the flat list of services used by navigation.
\* A status is [services |-> number of services, error |-> "none", "other"
\* or "not installed"]; a flat entry is <<status index, service index>>.
RECURSIVE FlatServices(_, _, _)
FlatServices(statuses, i, acc) ==
  IF i > Len(statuses) THEN acc
  ELSE IF statuses[i].error = "not installed" THEN acc
  ELSE IF statuses[i].error # "none" THEN FlatServices(statuses, i + 1, acc)
  ELSE FlatServices(statuses, i + 1,
                    acc \o [k \in 1 .. statuses[i].services |-> <<i, k>>])

FormatDockerHeader(s, statuses) ==
  IF Len(statuses) = 0 THEN s
  ELSE [s EXCEPT !.flatDockerServices = FlatServices(statuses, 1, <<>>)]

\* updatePRHighlight repaints only.  updateDockerHighlight re-renders the
\* header, which exists once showDocker has been set by updateWorkflows.
UpdateDockerHighlight(s) ==
  IF ~s.showDocker THEN s ELSE FormatDockerHeader(s, s.dockerServices)

\* trackWorkflowChanges: one "event" entry per new, changed or removed run
StatusIn(seq, id) ==
  LET hits == {i \in 1 .. Len(seq) : seq[i].id = id} IN
  \* new Map(entries): the last entry with the id wins
  seq[CHOOSE i \in hits : \A j \in hits : j <= i].status

ChangeMessages(old, new) ==
  [i \in 1 .. Len(new) |->
     IF new[i].id \notin Ids(old) THEN "New workflow"
     ELSE IF StatusIn(old, new[i].id) # new[i].status THEN "Status change"
     ELSE "unchanged"]

RemovedMessages(old, new) ==
  [i \in 1 .. Len(old) |->
     IF old[i].id \notin Ids(new) THEN "Removed" ELSE "unchanged"]

IsMessage(m) == m # "unchanged"

TrackWorkflowChanges(s, newWorkflows) ==
  LogAll(s, "event",
         SelectSeq(ChangeMessages(s.workflows, newWorkflows), IsMessage)
           \o SelectSeq(RemovedMessages(s.workflows, newWorkflows), IsMessage))

\* updateWorkflows(workflows, jobs, pullRequests, dockerServices); the jobs
\* argument is the App's own map (jobsCache aliases it)
\* stopRefreshAnimation: "Record the actual refresh time"
StopRefreshAnimation(s) == [s EXCEPT !.lastRefreshTime = s.now]

UpdateWorkflows(s, wfs, prs, ds) ==
  IF s.modalOpen
  THEN [s EXCEPT !.workflows = wfs, !.pullRequests = prs, !.dockerServices = ds]
  ELSE LET s1 == TrackWorkflowChanges(s, wfs)
           previousWorkflowCount == Len(s.workflows)
           s2 == [s1 EXCEPT !.workflows = wfs, !.pullRequests = prs,
                            !.dockerServices = ds, !.showPRs = TRUE,
                            !.showDocker = TRUE]
           s3 == FormatDockerHeader(s2, ds)
       IN StopRefreshAnimation(
            IF Len(wfs) # previousWorkflowCount \/ Len(s3.grid) = 0
            THEN LayoutWorkflows(s3)
            ELSE s3)

\* showError: the grid is replaced by the error box
ShowError(s) == [s EXCEPT !.grid = <<"error">>]

\* a grid navigation that checks the rows and columns but not the run count
NavigateGridAnywhere(s, direction) ==
  LET cur == IndexToCoords(s, s.selectedIndex)
      newRow == CASE direction = "up" -> cur.row - 1
                  [] direction = "down" -> cur.row + 1
                  [] OTHER -> cur.row
      newCol == CASE direction = "left" -> cur.col - 1
                  [] direction = "right" -> cur.col + 1
                  [] OTHER -> cur.col
  IN IF newRow < 0 \/ newRow >= s.rows \/ newCol < 0 \/ newCol >= s.cols THEN s
     ELSE [s EXCEPT !.selectedIndex = CoordsToIndex(s, newRow, newCol)]

\* navigateGrid
NavigateGrid(s, direction) ==
  IF Len(s.workflows) = 0 \/ Len(s.grid) = 0 THEN s
  ELSE
    LET s1 == IF s.cols = 0 \/ s.rows = 0 THEN [s EXCEPT !.cols = 1, !.rows = 1] ELSE s
        s2 == IF s1.selectedIndex >= Len(s1.workflows) \/ s1.selectedIndex < 0
              THEN [s1 EXCEPT !.selectedIndex = 0] ELSE s1
        cur == IndexToCoords(s2, s2.selectedIndex)
        newRow == CASE direction = "up" -> cur.row - 1
                    [] direction = "down" -> cur.row + 1
                    [] OTHER -> cur.row
        newCol == CASE direction = "left" -> cur.col - 1
                    [] direction = "right" -> cur.col + 1
                    [] OTHER -> cur.col
        stay == \/ direction = "up" /\ newRow < 0
                \/ direction = "down" /\ newRow >= s2.rows
                \/ direction = "left" /\ (s2.cols <= 1 \/ newCol < 0)
                \/ direction = "right" /\ (s2.cols <= 1 \/ newCol >= s2.cols)
    IN IF stay THEN s2
       ELSE IF IsValidGridPosition(s2, newRow, newCol)
                 /\ CoordsToIndex(s2, newRow, newCol) < Len(s2.workflows)
            THEN HighlightSelected(
                   [s2 EXCEPT !.selectedIndex = CoordsToIndex(s2, newRow, newCol)])
            ELSE s2

\* navigatePRs / navigateDocker: circular lists
Wrap(index, direction, length) ==
  IF direction \in {"left", "up"}
  THEN IF index - 1 < 0 THEN length - 1 ELSE index - 1
  ELSE IF index + 1 >= length THEN 0 ELSE index + 1

NavigatePRs(s, direction) ==
  IF Len(s.pullRequests) = 0 THEN s
  ELSE [s EXCEPT !.selectedPRIndex = Wrap(@, direction, Len(s.pullRequests))]

NavigateDocker(s, direction) ==
  IF Len(s.flatDockerServices) = 0 THEN s
  ELSE LET newIndex == Wrap(s.selectedDockerIndex, direction, Len(s.flatDockerServices)) IN
       IF newIndex # s.selectedDockerIndex
       THEN UpdateDockerHighlight([s EXCEPT !.selectedDockerIndex = newIndex])
       ELSE s

\* the four direction keys (setupKeyBindings)
UpHandler(s) ==
  CASE s.selectionMode = "workflows" ->
         LET cur == IndexToCoords(s, s.selectedIndex) IN
         IF cur.row = 0
         THEN IF s.showPRs /\ Len(s.pullRequests) > 0
              THEN HighlightSelected(
                     [s EXCEPT !.selectionMode = "prs",
                               !.selectedPRIndex =
                                  IF s.cols > 1 /\ cur.col > 0
                                  THEN Min(cur.col, Len(s.pullRequests) - 1)
                                  ELSE @])
              ELSE IF s.showDocker /\ Len(s.flatDockerServices) > 0
              THEN HighlightSelected(
                     UpdateDockerHighlight([s EXCEPT !.selectionMode = "docker"]))
              ELSE s
         ELSE NavigateGrid(s, "up")
    [] s.selectionMode = "prs" ->
         IF s.showDocker /\ Len(s.flatDockerServices) > 0
         THEN UpdateDockerHighlight([s EXCEPT !.selectionMode = "docker"])
         ELSE NavigatePRs(s, "left")
    [] OTHER -> NavigateDocker(s, "left")

DownHandler(s) ==
  CASE s.selectionMode = "docker" ->
         IF s.showPRs /\ Len(s.pullRequests) > 0
         THEN UpdateDockerHighlight([s EXCEPT !.selectionMode = "prs"])
         ELSE HighlightSelected(
                UpdateDockerHighlight(
                  [s EXCEPT !.selectionMode = "workflows", !.selectedIndex = 0]))
    [] s.selectionMode = "prs" ->
         LET targetCol == Min(s.selectedPRIndex, s.cols - 1)
             targetIndex == Min(targetCol, Len(s.workflows) - 1)
         IN HighlightSelected(
              [s EXCEPT !.selectionMode = "workflows", !.selectedIndex = targetIndex])
    [] OTHER -> NavigateGrid(s, "down")

SideHandler(s, direction) ==
  CASE s.selectionMode = "workflows" -> NavigateGrid(s, direction)
    [] s.selectionMode = "prs" -> NavigatePRs(s, direction)
    [] OTHER -> NavigateDocker(s, direction)


\* the run under the workflow selection, when there is one (array[index])
HasSelected(s) == s.selectedIndex >= 0 /\ s.selectedIndex < Len(s.workflows)
Selected(s) == s.workflows[s.selectedIndex + 1]

\* showHelp / hideHelp / showKillConfirmation / hideKillConfirmation.
\* hide() and destroy() of the focused box hand the focus back to the box
\* focused before it, if that box is still shown.
HideHelp(s) ==
  [s EXCEPT !.modalOpen = FALSE, !.helpHidden = TRUE,
            !.focused = IF @ = "help"
                        THEN IF s.confirmBox # 0 THEN "confirm" ELSE "none"
                        ELSE @]

ShowHelp(s) ==
  IF s.modalOpen /\ ~s.helpHidden THEN HideHelp(s)
  ELSE [s EXCEPT !.modalOpen = TRUE, !.helpHidden = FALSE, !.focused = "help"]

\* confirmBox holds the id of the run the dialog asks about, 0 when there is
\* no dialog; confirmArmed: its once("keypress") handler has not fired yet
ShowKillConfirmation(s, id) ==
  [s EXCEPT !.confirmBox = id, !.confirmArmed = TRUE, !.modalOpen = TRUE,
            !.focused = "confirm"]

HideKillConfirmation(s) ==
  [s EXCEPT !.modalOpen = FALSE, !.confirmBox = 0, !.confirmArmed = FALSE,
            !.focused = IF @ = "confirm"
                        THEN IF ~s.helpHidden THEN "help" ELSE "none"
                        ELSE @]

(***************************************************************************)
(* GitHubService                                                           *)
(***************************************************************************)
\* an entry holds the data and the time it was stored; `before` is not a
\* field of the program's entry: it records the creation-time filter of the
\* query that stored it (0 for a query without one), to tell the entries of
\* the two kinds of run-list query apart.  It is recorded under markQueries,
\* in the environment that looks at it, and is 0 elsewhere.
NoEntry == [data |-> <<>>, timestamp |-> 0 - 1, before |-> 0]
RunsKey(repo) == <<"runs", repo>>
JobsKey(id) == <<"jobs", id>>
PrsKey(repo) == <<"prs", repo>>
CacheKeys ==
  {RunsKey(Repos[i]) : i \in 1 .. Len(Repos)} \cup {JobsKey(id) : id \in RunIds}
    \cup {PrsKey(Repos[i]) : i \in 1 .. Len(Repos)}

\* a cache that never answers
CacheHitNever(c, key, t) == FALSE

\* getFromCache: a hit while now - timestamp <= cacheTimeout; an expired
\* entry is deleted by the lookup that finds it
CacheHit(c, key, t) ==
  c[key] # NoEntry /\ ~(t - c[key].timestamp > cacheTimeout)

GetFromCache(c, key, t) ==
  IF c[key] # NoEntry /\ t - c[key].timestamp > cacheTimeout
  THEN [c EXCEPT ![key] = NoEntry]
  ELSE c

SetCache(c, key, data, t) ==
  [c EXCEPT ![key] = [data |-> data, timestamp |-> t, before |-> 0]]

\* the loop of getAllRecentWorkflows / getOlderWorkflows over the repositories,
\* run from repository i until a listWorkflowRuns call misses the cache and
\* has to wait for `gh` (i <= Len(Repos)), or to the end (i > Len(Repos))
RECURSIVE FetchLoop(_, _, _, _)
FetchLoop(c, t, i, acc) ==
  IF i > Len(Repos) THEN [cache |-> c, i |-> i, allRuns |-> acc]
  ELSE IF CacheHit(c, RunsKey(Repos[i]), t)
       THEN FetchLoop(c, t, i + 1, acc \o c[RunsKey(Repos[i])].data)
       ELSE [cache |-> GetFromCache(c, RunsKey(Repos[i]), t), i |-> i, allRuns |-> acc]

\* the loop of getAllPullRequests over the repositories, likewise
RECURSIVE FetchPRLoop(_, _, _, _)
FetchPRLoop(c, t, i, acc) ==
  IF i > Len(Repos) THEN [cache |-> c, i |-> i, allPRs |-> acc]
  ELSE IF CacheHit(c, PrsKey(Repos[i]), t)
       THEN FetchPRLoop(c, t, i + 1, acc \o c[PrsKey(Repos[i])].data)
       ELSE [cache |-> GetFromCache(c, PrsKey(Repos[i]), t), i |-> i, allPRs |-> acc]

\* `gh pr list --repo repo`: the pull requests are those of the first
\* repository, newest first, so that the sort of getAllPullRequests keeps
\* their order
GhPRList(n, repo) == IF repo = Repos[1] THEN [i \in 1 .. n |-> i] ELSE <<>>

\* listWorkflowRuns(repo, limit, before) once `gh` has answered: the result
\* is stored under runs:repo whatever limit and before were
ListWorkflowRunsDone(s, repo, limit, before) ==
  LET runs == GhRunList(s.runStatus, repo, limit, before) IN
  [runs |-> runs,
   cache |-> [SetCache(s.cache, RunsKey(repo), runs, s.now)
                EXCEPT ![RunsKey(repo)].before = IF s.markQueries THEN before ELSE 0]]

(***************************************************************************)
(* App                                                                     *)
(***************************************************************************)
CycleIds == {"c1", "c2"}
ResurrectIds == {"r1"}
IdleCycle ==
  [pc |-> "idle", i |-> 0, allRuns |-> <<>>, workflows |-> <<>>, pending |-> {},
   allPRs |-> <<>>]
IdleResurrect == [pc |-> "idle", i |-> 0, allRuns |-> <<>>, before |-> 0]
IdleKill == [pc |-> "idle", id |-> 0]

NonCompleted(seq) == {seq[i].id : i \in {j \in 1 .. Len(seq) : seq[j].status # "completed"}}

\* "Update watched and completed trackers" (performRefresh)
RECURSIVE TrackRuns(_, _)
TrackRuns(s, runs) ==
  IF runs = <<>> THEN s
  ELSE LET run == Head(runs) IN
       TrackRuns(
         IF run.status # "completed"
         THEN [s EXCEPT !.watchedWorkflows = @ \cup {run.id}]
         ELSE IF run.id \in s.watchedWorkflows /\ run.id \notin s.completedWorkflows
         THEN [s EXCEPT !.completedWorkflows = @ \cup {run.id}]
         ELSE s,
         Tail(runs))

\* a filter that lets every run through
VisibleOfAll(runs, completed) == runs

\* "Visible workflows = active runs + completed pending confirmation"
VisibleOf(runs, completed) ==
  LET Keep(run) == run.status # "completed" \/ run.id \in completed IN
  SelectSeq(runs, Keep)

\* a publication that adds to the job map instead of replacing it
PublishKeeping(s, c, wfs) ==
  LET s1 == [s EXCEPT !.jobs = @ \cup NonCompleted(wfs)]
      s2 == UpdateWorkflows(s1, wfs, s.appPullRequests, <<>>)
  IN StopRefreshAnimation([s2 EXCEPT !.isRefreshing = FALSE, !.refresh[c] = IdleCycle])

\* the end of performRefresh: jobs map, updateWorkflows, finally
Publish(s, c, wfs) ==
  LET s1 == [s EXCEPT !.jobs = NonCompleted(wfs)]
      s2 == UpdateWorkflows(s1, wfs, s.appPullRequests, <<>>)
  IN StopRefreshAnimation([s2 EXCEPT !.isRefreshing = FALSE, !.refresh[c] = IdleCycle])

\* performRefresh from the sorted run list to the job queries
Merge(s, c, allRuns) ==
  LET s1 == TrackRuns(s, allRuns)
      s2 == IF Len(allRuns) > 0
            THEN [s1 EXCEPT !.oldestWorkflowTimestamp = allRuns[Len(allRuns)].createdAt]
            ELSE s1
      wfs == VisibleOf(allRuns, s2.completedWorkflows)
      active == NonCompleted(wfs)
      misses == {id \in active : ~CacheHit(s2.cache, JobsKey(id), s2.now)}
      s3 == [s2 EXCEPT !.cache = [k \in CacheKeys |->
                                    IF k \in {JobsKey(id) : id \in misses}
                                    THEN NoEntry ELSE @[k]]]
  IN IF misses = {} THEN Publish(s3, c, wfs)
     ELSE [s3 EXCEPT !.refresh[c] =
             [pc |-> "jobs", i |-> 0, allRuns |-> allRuns, workflows |-> wfs,
              pending |-> misses, allPRs |-> <<>>]]

\* performRefresh resumed in the getAllPullRequests loop; allRuns is what
\* getAllRecentWorkflows returned
ContinuePRs(s, c, allRuns, r) ==
  LET s1 == [s EXCEPT !.cache = r.cache] IN
  IF r.i <= Len(Repos)
  THEN [s1 EXCEPT !.refresh[c] = [IdleCycle EXCEPT !.pc = "prs", !.i = r.i,
                                                   !.allRuns = allRuns,
                                                   !.allPRs = r.allPRs]]
  ELSE Merge([s1 EXCEPT !.appPullRequests = r.allPRs], c, allRuns)

\* performRefresh resumed in the getAllRecentWorkflows loop
ContinueRefresh(s, c, r) ==
  LET s1 == [s EXCEPT !.cache = r.cache] IN
  IF r.i <= Len(Repos)
  THEN [s1 EXCEPT !.refresh[c] = [IdleCycle EXCEPT !.pc = "runs", !.i = r.i,
                                                   !.allRuns = r.allRuns]]
  ELSE IF s.appShowPRs
       THEN ContinuePRs(s1, c, SortByCreatedDesc(r.allRuns),
                        FetchPRLoop(s1.cache, s1.now, 1, <<>>))
       ELSE Merge(s1, c, SortByCreatedDesc(r.allRuns))

\* performRefresh without its isRefreshing guard
MayRefreshIgnoringCycle(s) == ~s.modalOpen

\* the two early returns of performRefresh
MayRefresh(s) == ~s.modalOpen /\ ~s.isRefreshing

PerformRefresh(s, c) ==
  IF ~MayRefresh(s) THEN s
  ELSE LET s1 == Log([s EXCEPT !.isRefreshing = TRUE], "debug", "Refreshing data...")
       IN ContinueRefresh(s1, c, FetchLoop(s1.cache, s1.now, 1, <<>>))

\* `gh run list` of the cycle answers
RefreshRunsDone(s, c, outcome) ==
  LET cy == s.refresh[c]
      repo == Repos[cy.i]
  IN CASE outcome = "ok" ->
            LET d == ListWorkflowRunsDone(s, repo, DefaultLimit, 0) IN
            ContinueRefresh(s, c, FetchLoop(d.cache, s.now, cy.i + 1, cy.allRuns \o d.runs))
       [] outcome = "fail" ->
            ContinueRefresh(s, c, FetchLoop(s.cache, s.now, cy.i + 1, cy.allRuns))
       [] OTHER ->
            \* rate limit: listWorkflowRuns throws, performRefresh catches
            LET s1 == ShowError(Log(s, "error", "Error refreshing")) IN
            StopRefreshAnimation(
              [s1 EXCEPT !.isRefreshing = FALSE, !.refresh[c] = IdleCycle])

\* `gh pr list` of the cycle answers
RefreshPRsDone(s, c, outcome) ==
  LET cy == s.refresh[c]
      repo == Repos[cy.i]
  IN CASE outcome = "ok" ->
            LET prs == GhPRList(s.ghPullRequests, repo)
                stored == SetCache(s.cache, PrsKey(repo), prs, s.now)
            IN ContinuePRs(s, c, cy.allRuns,
                           FetchPRLoop(stored, s.now, cy.i + 1, cy.allPRs \o prs))
       [] outcome = "fail" ->
            ContinuePRs(s, c, cy.allRuns,
                        FetchPRLoop(s.cache, s.now, cy.i + 1, cy.allPRs))
       [] OTHER ->
            LET s1 == ShowError(Log(s, "error", "Error refreshing")) IN
            StopRefreshAnimation(
              [s1 EXCEPT !.isRefreshing = FALSE, !.refresh[c] = IdleCycle])

\* the job queries of the cycle have all settled; ok: those that answered
RefreshJobsDone(s, c, ok) ==
  LET cy == s.refresh[c]
      s1 == [s EXCEPT !.cache = [k \in CacheKeys |->
                                   IF k \in {JobsKey(id) : id \in ok}
                                   THEN [data |-> <<>>, timestamp |-> s.now,
                                         before |-> 0]
                                   ELSE @[k]]]
  IN Publish(s1, c, cy.workflows)

\* dismissCompletedWorkflow / dismissAllCompletedWorkflows / updateDisplayAfterDismiss
UpdateDisplayAfterDismiss(s) ==
  UpdateWorkflows(s, VisibleOf(s.workflows, s.completedWorkflows),
                  s.appPullRequests, <<>>)

DismissCompletedWorkflow(s, id) ==
  UpdateDisplayAfterDismiss(
    [s EXCEPT !.completedWorkflows = @ \ {id}, !.watchedWorkflows = @ \ {id}])

DismissAllCompletedWorkflows(s, ids) ==
  UpdateDisplayAfterDismiss(
    [s EXCEPT !.completedWorkflows = @ \ ids, !.watchedWorkflows = @ \ ids])

\* resurrectOldestWorkflow, after getOlderWorkflows has returned
ResurrectFinish(s, q, allRuns) ==
  LET olderWorkflows == Take(SortByCreatedDesc(allRuns), ResurrectLimit)
      s0 == [s EXCEPT !.resurrect[q] = IdleResurrect]
  IN IF Len(olderWorkflows) = 0 THEN Log(s0, "info", "No older workflows found")
     ELSE LET resurrected == olderWorkflows[1]
              s1 == [s0 EXCEPT !.completedWorkflows = @ \cup {resurrected.id},
                               !.oldestWorkflowTimestamp = resurrected.createdAt]
              s2 == UpdateWorkflows(s1, s.workflows \o <<resurrected>>,
                                    s.appPullRequests, <<>>)
          IN Log(s2, "info", "Resurrected workflow")

ContinueResurrect(s, q, before, r) ==
  LET s1 == [s EXCEPT !.cache = r.cache] IN
  IF r.i <= Len(Repos)
  THEN [s1 EXCEPT !.resurrect[q] = [pc |-> "runs", i |-> r.i, allRuns |-> r.allRuns,
                                    before |-> before]]
  ELSE ResurrectFinish(s1, q, r.allRuns)

ResurrectOldestWorkflow(s, q) ==
  LET s1 == Log(s, "info", "Resurrect called") IN
  IF s.oldestWorkflowTimestamp = 0 \/ Len(Repos) = 0
  THEN Log(s1, "info", "No older workflows available to resurrect")
  ELSE LET s2 == Log(s1, "info", "Fetching older workflow") IN
       ContinueResurrect(s2, q, s.oldestWorkflowTimestamp,
                         FetchLoop(s2.cache, s2.now, 1, <<>>))

ResurrectRunsDone(s, q, outcome) ==
  LET rs == s.resurrect[q]
      repo == Repos[rs.i]
  IN CASE outcome = "ok" ->
            LET d == ListWorkflowRunsDone(s, repo, ResurrectLimit, rs.before) IN
            ContinueResurrect(s, q, rs.before,
                              FetchLoop(d.cache, s.now, rs.i + 1, rs.allRuns \o d.runs))
       [] outcome = "fail" ->
            ContinueResurrect(s, q, rs.before,
                              FetchLoop(s.cache, s.now, rs.i + 1, rs.allRuns))
       [] OTHER ->
            Log([s EXCEPT !.resurrect[q] = IdleResurrect], "info",
                "Failed to resurrect workflow")


\* the first free slot for a new invocation of performRefresh
HasIdleCycle(s) == \E c \in CycleIds : s.refresh[c].pc = "idle"
IdleCycleOf(s) == CHOOSE c \in CycleIds : s.refresh[c].pc = "idle"
InFlight(s) == {c \in CycleIds : s.refresh[c].pc # "idle"}

\* onKillWorkflow up to `gh run cancel`, and after it
KillWorkflow(s, id) ==
  [Log(s, "info", "Cancelling workflow run") EXCEPT !.kill = [pc |-> "cancel", id |-> id]]

\* a handler that refreshes after the command whatever its outcome
KillDoneRefreshing(s, ok) ==
  LET s1 == [s EXCEPT !.kill = IdleKill] IN
  PerformRefresh(Log(s1, IF ok THEN "info" ELSE "error",
                     IF ok THEN "Successfully cancelled workflow run"
                     ELSE "Failed to cancel workflow"),
                 IdleCycleOf(s1))

KillDone(s, ok) ==
  LET s1 == [s EXCEPT !.kill = IdleKill] IN
  IF ok
  THEN PerformRefresh(Log(s1, "info", "Successfully cancelled workflow run"),
                      IdleCycleOf(s1))
  ELSE Log(s1, "error", "Failed to cancel workflow")

(***************************************************************************)
(* Preferences.  A value of the preferences JSON is a record: t is its     *)
(* type ("undefined" for a field the object does not hold), n, s and b     *)
(* its value as a number, a string or a boolean.  The file is absent,      *)
(* unparsable ("corrupt": JSON.parse throws) or one JSON object; savedAt   *)
(* is written and never read, and is left out.                             *)
(***************************************************************************)
Undefined == [t |-> "undefined", n |-> 0, s |-> "", b |-> FALSE]
Null == [t |-> "null", n |-> 0, s |-> "", b |-> FALSE]
Num(n) == [t |-> "number", n |-> n, s |-> "", b |-> FALSE]
Str(s) == [t |-> "string", n |-> 0, s |-> s, b |-> FALSE]
Bool(b) == [t |-> "boolean", n |-> 0, s |-> "", b |-> b]

\* the number that is not one: below every height the program can hold
NaN == 0 - 1

PrefsFile(kind, height, auto, level) ==
  [kind |-> kind, debugBoxHeight |-> height, autoShowDebug |-> auto,
   logLevel |-> level]

AbsentFile == PrefsFile("absent", Undefined, Undefined, Undefined)
CorruptFile == PrefsFile("corrupt", Undefined, Undefined, Undefined)

\* the conversion Math.min applies to its argument; the strings of the
\* files below hold no digits
ToNumber(v) ==
  CASE v.t = "number" -> v.n
    [] v.t = "boolean" -> IF v.b THEN 1 ELSE 0
    [] v.t = "null" -> 0
    [] v.t = "string" -> IF v.s = "" THEN 0 ELSE NaN
    [] OTHER -> NaN

\* Math.max(minDebugHeight, Math.min(maxDebugHeight, value))
ClampHeight(v) ==
  IF ToNumber(v) = NaN THEN NaN
  ELSE Max(minDebugHeight, Min(maxDebugHeight, ToNumber(v)))

\* loadPreferences: the fields of the Dashboard after it
LoadPreferences(file) ==
  LET read == file.kind = "json" IN
  [debugBoxHeight |-> IF read /\ file.debugBoxHeight.t # "undefined"
                      THEN ClampHeight(file.debugBoxHeight)
                      ELSE DefaultDebugHeight,
   autoShowDebug |-> IF read /\ file.autoShowDebug.t # "undefined"
                     THEN file.autoShowDebug.b ELSE FALSE,
   showDebug |-> IF read /\ file.autoShowDebug.t # "undefined"
                 THEN file.autoShowDebug.b ELSE FALSE,
   logLevel |-> IF read /\ file.logLevel.t # "undefined"
                THEN file.logLevel.s ELSE "info"]

\* JSON.stringify of the preferences in memory: NaN is written as null
Stringify(s) ==
  PrefsFile("json",
            IF s.debugBoxHeight = NaN THEN Null ELSE Num(s.debugBoxHeight),
            Bool(s.autoShowDebug), Str(s.logLevel))

\* savePreferences
SavePreferences(s) ==
  IF s.prefsWritable
  THEN Log([s EXCEPT !.prefsFile = Stringify(s),
                     !.effects = Append(@, "write")],
           "debug", "Preferences saved")
  ELSE Log([s EXCEPT !.effects = Append(@, "write failed")],
           "error", "Failed to save preferences")

\* toggleLogLevel
ToggleLogLevel(s) ==
  LET level == CASE s.logLevel = "info" -> "debug"
                 [] s.logLevel = "debug" -> "trace"
                 [] OTHER -> "info"
      s1 == Log(SavePreferences([s EXCEPT !.logLevel = level]),
                "info", "Log level")
  IN IF s1.showDebug THEN UpdateDebugBox(s1) ELSE s1

\* toggleDebug
ToggleDebug(s) ==
  LET s1 == [s EXCEPT !.showDebug = ~@] IN
  LayoutWorkflows(IF s1.showDebug
                  THEN UpdateDebugBox(Log(s1, "info", "Event log enabled"))
                  ELSE s1)

\* toggleAutoShowDebug
ToggleAutoShowDebug(s) ==
  LET s1 == Log(SavePreferences([s EXCEPT !.autoShowDebug = ~@]),
                "event", "Auto-show event log")
  IN IF s1.showDebug THEN UpdateDebugBox(s1) ELSE s1

\* resizeDebugBox; NaN + delta is NaN, and NaN is neither below the minimum
\* nor above the maximum
ResizeDebugBox(s, delta) ==
  LET newHeight == IF s.debugBoxHeight = NaN THEN NaN
                   ELSE s.debugBoxHeight + delta
  IN IF newHeight # NaN /\ (newHeight < minDebugHeight \/ newHeight > maxDebugHeight)
     THEN s
     ELSE LayoutWorkflows(SavePreferences(
            Log([s EXCEPT !.debugBoxHeight = newHeight],
                "info", "Event log height")))

\* destroy: the terminal is released by the first call that reaches
\* screen.destroy()
Destroy(s) ==
  LET s1 == SavePreferences(s) IN
  IF "release" \in {s1.effects[i] : i \in 1 .. Len(s1.effects)}
  THEN s1
  ELSE [s1 EXCEPT !.effects = Append(@, "release")]

\* a cleanup that lets a refresh in flight finish first
CleanupWaiting(s) ==
  IF s.isRefreshing THEN s
  ELSE [Destroy(Destroy(SavePreferences(s)))
          EXCEPT !.effects = Append(@, "exit"), !.exited = TRUE]

\* cleanup: the "exit" event is App.stop(), which destroys the Dashboard
\* before cleanup does
Cleanup(s) ==
  LET s1 == Destroy(Destroy(SavePreferences(s))) IN
  [s1 EXCEPT !.effects = Append(@, "exit"), !.exited = TRUE]

(***************************************************************************)
(* Keys.  The screen's handlers run first (the keypress fallback and the   *)
(* key bindings), then the handlers of the box that had the focus when     *)
(* the key was pressed.                                                    *)
(***************************************************************************)
Keys == {"up", "down", "left", "right", "k", "d", "D", "r", "?", "escape", "y", "n",
         "q", "f9", "f10", "a", "C-k", "C-j"}

\* the `d` handlers (fallback and binding are the same code)
DismissSelected(s) ==
  IF HasSelected(s) /\ Selected(s).status = "completed"
  THEN DismissCompletedWorkflow(s, Selected(s).id)
  ELSE s

\* the `D` handlers
DismissAllHandler(s) ==
  LET completed == {s.workflows[i].id :
                      i \in {j \in 1 .. Len(s.workflows) : s.workflows[j].status = "completed"}}
  IN IF completed # {} THEN DismissAllCompletedWorkflows(s, completed) ELSE s

\* the `k` binding after the `up` binding that shares the key
KillHandler(s) ==
  IF HasSelected(s) /\ Selected(s).status \in {"in_progress", "queued"}
  THEN ShowKillConfirmation(s, Selected(s).id)
  ELSE s

ScreenKey(s, key) ==
  CASE key = "up" -> UpHandler(s)
    [] key = "down" -> DownHandler(s)
    [] key \in {"left", "right"} -> SideHandler(s, key)
    [] key = "k" -> KillHandler(UpHandler(s))
    [] key = "d" -> DismissSelected(DismissSelected(s))
    [] key = "D" -> DismissAllHandler(DismissAllHandler(s))
    [] key = "r" -> IF HasIdleCycle(s) THEN PerformRefresh(s, IdleCycleOf(s)) ELSE s
    [] key = "?" -> ShowHelp(s)
    [] key = "q" -> Cleanup(s)
    [] key = "f9" -> ToggleDebug(s)
    [] key = "f10" -> ToggleLogLevel(s)
    [] key = "a" -> ToggleAutoShowDebug(s)
    [] key = "C-k" -> IF s.showDebug THEN ResizeDebugBox(s, 1) ELSE s
    [] key = "C-j" -> IF s.showDebug THEN ResizeDebugBox(s, 0 - 1) ELSE s
    [] OTHER -> s

\* confirmHandler, registered with once("keypress") on the dialog that had
\* the focus in s0; s1 is the state the screen's handlers left
ConfirmHandler(s0, s1, key) ==
  CASE key = "y" -> KillWorkflow(HideKillConfirmation(s1), s0.confirmBox)
    [] key \in {"n", "escape"} -> HideKillConfirmation(s1)
    [] key = "k" /\ s1.confirmArmed /\ KillHandler(UpHandler(s0)) = s1
                 /\ HasSelected(UpHandler(s0))
                 /\ Selected(UpHandler(s0)).status \in {"in_progress", "queued"} ->
         \* the k binding replaced the dialog: the new one keeps its handler
         s1
    [] OTHER -> [s1 EXCEPT !.confirmArmed = FALSE]

KeyPress(s0, key) ==
  LET s1 == ScreenKey(s0, key) IN
  CASE s0.focused = "confirm" /\ s0.confirmArmed -> ConfirmHandler(s0, s1, key)
    [] s0.focused = "help" /\ key \in {"escape", "?"} -> HideHelp(s1)
    [] OTHER -> s1

(***************************************************************************)
(* The state after construction, and the steps.                            *)
(***************************************************************************)
\* file: the preferences file the constructor finds
InitFrom(file) ==
  /\ runStatus \in [RunIds -> Statuses]
  /\ now = 0
  /\ faults = 0
  /\ cache = [k \in CacheKeys |-> NoEntry]
  /\ isRefreshing = FALSE
  /\ watchedWorkflows = {}
  /\ completedWorkflows = {}
  /\ oldestWorkflowTimestamp = 0
  /\ jobs = {}
  /\ refresh = [c \in CycleIds |-> IdleCycle]
  /\ resurrect = [q \in ResurrectIds |-> IdleResurrect]
  /\ kill = IdleKill
  /\ workflows = <<>>
  /\ pullRequests = <<>>
  /\ dockerServices = <<>>
  /\ flatDockerServices = <<>>
  /\ showPRs = FALSE
  /\ showDocker = FALSE
  /\ selectedIndex = 0
  /\ selectedPRIndex = 0
  /\ selectedDockerIndex = 0
  /\ selectionMode = "workflows"
  /\ modalOpen = FALSE
  /\ helpHidden = TRUE
  /\ confirmBox = 0
  /\ confirmArmed = FALSE
  /\ focused = "none"
  /\ cols = 1
  /\ rows = 1
  /\ grid = <<>>
  /\ logged = <<>>
  /\ logLevel = LoadPreferences(file).logLevel
  /\ debugBox = <<>>
  /\ showDebug = LoadPreferences(file).showDebug
  /\ debugBoxHeight = LoadPreferences(file).debugBoxHeight
  /\ debugUpdateTimer = FALSE
  /\ autoShowDebug = LoadPreferences(file).autoShowDebug
  /\ prefsFile = file
  /\ prefsWritable \in BOOLEAN
  /\ exited = FALSE
  /\ effects = <<>>
  /\ ghPullRequests = 0
  /\ appShowPRs \in BOOLEAN
  /\ appPullRequests = <<>>
  /\ lastRefreshTime = 0 - 1
  /\ markQueries \in BOOLEAN

Init == InitFrom(AbsentFile) /\ prefsWritable /\ ~appShowPRs /\ ~markQueries

\* a `gh` command may fail while fewer than MaxFaults have
MayAnswer(outcome) == outcome = "ok" \/ faults < MaxFaults
Answered(s, outcome) == IF outcome = "ok" THEN s ELSE [s EXCEPT !.faults = @ + 1]

\* the wall clock
Tick ==
  /\ now < MaxTicks * TickMs
  /\ Becomes([StartStep(State) EXCEPT !.now = @ + TickMs])

\* a run finishes, or is re-run, on GitHub
RunCompletes(id) ==
  /\ runStatus[id] = "in_progress"
  /\ Becomes([StartStep(State) EXCEPT !.runStatus[id] = "completed"])

RunRestarts(id) ==
  /\ runStatus[id] = "completed"
  /\ Becomes([StartStep(State) EXCEPT !.runStatus[id] = "in_progress"])

\* the setInterval callback of startAutoRefresh
TimerRefresh ==
  /\ ~exited
  /\ HasIdleCycle(State)
  /\ Becomes(PerformRefresh(StartStep(State), IdleCycleOf(State)))

Key(key) ==
  /\ ~exited
  /\ key = "r" => HasIdleCycle(State)
  /\ (key = "y" /\ focused = "confirm" /\ confirmArmed) => kill.pc = "idle"
  /\ Becomes(KeyPress(StartStep(State), key))

RefreshRunsAnswer(c, outcome) ==
  /\ ~exited
  /\ refresh[c].pc = "runs"
  /\ MayAnswer(outcome)
  /\ Becomes(RefreshRunsDone(Answered(StartStep(State), outcome), c, outcome))

RefreshPRsAnswer(c, outcome) ==
  /\ ~exited
  /\ refresh[c].pc = "prs"
  /\ MayAnswer(outcome)
  /\ Becomes(RefreshPRsDone(Answered(StartStep(State), outcome), c, outcome))

\* a pull request is opened in the first repository
PullRequestOpens ==
  /\ ghPullRequests < MaxOpenPRs
  /\ Becomes([StartStep(State) EXCEPT !.ghPullRequests = @ + 1])

RefreshJobsAnswer(c, ok) ==
  /\ ~exited
  /\ refresh[c].pc = "jobs"
  /\ ok \subseteq refresh[c].pending
  /\ MayAnswer(IF ok = refresh[c].pending THEN "ok" ELSE "fail")
  /\ Becomes(RefreshJobsDone(
               Answered(StartStep(State), IF ok = refresh[c].pending THEN "ok" ELSE "fail"),
               c, ok))

Resurrect(q) ==
  /\ resurrect[q].pc = "idle"
  /\ Len(workflows) < MaxVisible
  /\ Becomes(ResurrectOldestWorkflow(StartStep(State), q))

ResurrectRunsAnswer(q, outcome) ==
  /\ resurrect[q].pc = "runs"
  /\ MayAnswer(outcome)
  /\ Becomes(ResurrectRunsDone(Answered(StartStep(State), outcome), q, outcome))

\* the job queries of the cycle have all settled; ok: those that answered,
\* the others hit the rate limit.  getWorkflowJobs has one catch for every
\* error, so what follows is what follows any failure.
RefreshJobsRateLimit(c, ok) ==
  /\ refresh[c].pc = "jobs"
  /\ ok \subseteq refresh[c].pending /\ ok # refresh[c].pending
  /\ MayAnswer("ratelimit")
  /\ Becomes(RefreshJobsDone(Answered(StartStep(State), "ratelimit"), c, ok))

\* `gh run list` of the cycle answers or fails during an outage, when any
\* number of commands may fail one after the other
OutageRunsAnswer(c, outcome) ==
  /\ refresh[c].pc = "runs"
  /\ outcome \in Outcomes
  /\ Becomes(RefreshRunsDone(StartStep(State), c, outcome))

\* the SIGINT handler the Dashboard registers in setupKeyBindings; it runs
\* before the one index.ts registers after initialize(), and exits
Sigint ==
  /\ ~exited
  /\ Becomes(Cleanup(Log(StartStep(State), "info", "Received SIGINT")))

KillAnswer(ok) ==
  /\ kill.pc = "cancel"
  /\ ok => HasIdleCycle(State)
  /\ MayAnswer(IF ok THEN "ok" ELSE "fail")
  /\ Becomes(KillDone(Answered(StartStep(State), IF ok THEN "ok" ELSE "fail"), ok))

(***************************************************************************)
(* Three environments.  Spec: the lifecycle of the runs (polls, dismissal, *)
(* resurrection) without dialogs.  SpecModal: the dialogs and the kill     *)
(* flow over the same polls.  SpecNav: an App started with pull requests   *)
(* and Docker panels, seen from the Dashboard: each poll hands over a      *)
(* snapshot, and the direction keys move the selection.                    *)
(***************************************************************************)
Next ==
  \/ Tick
  \/ \E id \in RunIds : RunCompletes(id)
  \/ TimerRefresh
  \/ \E key \in {"r", "d", "D", "up", "down", "left", "right"} : Key(key)
  \/ \E c \in CycleIds, outcome \in Outcomes : RefreshRunsAnswer(c, outcome)
  \/ \E c \in CycleIds, ok \in SUBSET RunIds : RefreshJobsAnswer(c, ok)
  \/ \E q \in ResurrectIds : Resurrect(q)
  \/ \E q \in ResurrectIds, outcome \in Outcomes : ResurrectRunsAnswer(q, outcome)

Spec == Init /\ [][Next]_vars

NextModal ==
  \/ Tick
  \/ \E id \in RunIds : RunCompletes(id)
  \/ \E id \in RunIds : RunRestarts(id)
  \/ TimerRefresh
  \/ \E key \in {"r", "k", "?", "escape", "y", "n", "right"} : Key(key)
  \/ \E c \in CycleIds, outcome \in Outcomes : RefreshRunsAnswer(c, outcome)
  \/ \E c \in CycleIds, ok \in SUBSET RunIds : RefreshJobsAnswer(c, ok)
  \/ \E ok \in BOOLEAN : KillAnswer(ok)

SpecModal == Init /\ [][NextModal]_vars

\* what performRefresh hands to updateWorkflows when the App shows pull
\* requests and Docker services: n cards, p pull requests, the compose files
ComposeStatuses ==
  {[services |-> n, error |-> "none"] : n \in 0 .. MaxServices}
    \cup {[services |-> 0, error |-> e] : e \in {"other", "not installed"}}

DockerSnapshots ==
  UNION {[1 .. n -> ComposeStatuses] : n \in 0 .. MaxComposeFiles}

Snapshot(n, p, ds) ==
  /\ ds \in DockerSnapshots
  /\ Becomes(UpdateWorkflows(StartStep(State),
                             [i \in 1 .. n |-> Run(n + 1 - i, "in_progress")],
                             [i \in 1 .. p |-> i], ds))

NextNav ==
  \/ \E n \in 0 .. MaxCards, p \in 0 .. MaxPRs, ds \in DockerSnapshots : Snapshot(n, p, ds)
  \/ \E key \in {"up", "down", "left", "right"} : Key(key)

SpecNav == Init /\ [][NextNav]_vars

\* SpecOutage: the polls alone, with `gh run list` failing as often as it likes
NextOutage ==
  \/ Tick
  \/ \E id \in RunIds : RunCompletes(id)
  \/ TimerRefresh
  \/ Key("r")
  \/ \E c \in CycleIds, outcome \in Outcomes : OutageRunsAnswer(c, outcome)
  \/ \E c \in CycleIds, ok \in SUBSET RunIds : RefreshJobsRateLimit(c, ok)
  \/ \E c \in CycleIds, ok \in SUBSET RunIds : RefreshJobsAnswer(c, ok)

SpecOutage == Init /\ [][NextOutage]_vars

\* SpecLayout: the same, with enough cards for every shape of the grid
NextLayout ==
  \/ \E n \in 0 .. MaxLayoutCards, p \in 0 .. MaxLayoutPRs : Snapshot(n, p, <<>>)
  \/ \E key \in {"up", "down", "left", "right"} : Key(key)

SpecLayout == Init /\ [][NextLayout]_vars

(***************************************************************************)
(* The event log seen on its own.  A message is logged at any of the five  *)
(* levels; its text is its number in the order of the calls.  SpecLog:     *)
(* a long run of calls whose levels follow each other in a round, past     *)
(* the capacity of the log.  SpecLogFilter: a few calls at any levels,     *)
(* under any filter level of the preferences file, and the debug box       *)
(* rendered by the timer that log() arms.                                  *)
(***************************************************************************)
\* the preferences file opens the panel and names the filter level
InitLog ==
  \E level \in LogLevels :
    InitFrom(PrefsFile("json", Undefined, Bool(TRUE), Str(level)))
      /\ prefsWritable /\ ~appShowPRs /\ ~markQueries

NextMessage == IF logged = <<>> THEN 1 ELSE logged[Len(logged)].message + 1

RoundType(k) == LogTypes[((k - 1) % Len(LogTypes)) + 1]

LogMessage(type) ==
  /\ NextMessage <= MaxAppends
  /\ Becomes(Log(State, type, NextMessage))

\* the setTimeout callback of log()
DebugBoxTimer ==
  /\ ~exited
  /\ debugUpdateTimer
  /\ Becomes([UpdateDebugBox(State) EXCEPT !.debugUpdateTimer = FALSE])

NextLog == LogMessage(RoundType(NextMessage))

SpecLog == InitLog /\ [][NextLog]_vars

\* one of the first MaxFilterAppends calls
EarlyLogMessage(type) ==
  /\ NextMessage <= MaxFilterAppends
  /\ LogMessage(type)

NextLogFilter ==
  \/ \E i \in 1 .. Len(LogTypes) : EarlyLogMessage(LogTypes[i])
  \/ DebugBoxTimer

SpecLogFilter == InitLog /\ [][NextLogFilter]_vars

(***************************************************************************)
(* SpecPrefs: the Dashboard started on any preferences file, the keys of   *)
(* the log panel, the quit key and the interrupt signal, in a home         *)
(* directory that can be written or cannot.                                *)
(***************************************************************************)
PrefsFiles ==
  {AbsentFile, CorruptFile}
    \cup {PrefsFile("json", height, auto, level) :
            height \in {Undefined, Num(1), Num(20), Str("tall")},
            auto \in {Undefined, Bool(TRUE)},
            level \in {Undefined, Str("verbose")}}

\* the runs play no part here: none has completed
InitPrefs ==
  /\ \E file \in PrefsFiles : InitFrom(file)
  /\ ~appShowPRs /\ ~markQueries
  /\ runStatus = [id \in RunIds |-> "in_progress"]

PrefsKeys == {"f9", "f10", "a", "C-k", "C-j", "q"}

NextPrefs ==
  \/ \E key \in PrefsKeys : Key(key)
  \/ Sigint
  \/ DebugBoxTimer

SpecPrefs == InitPrefs /\ [][NextPrefs]_vars

(***************************************************************************)
(* Properties                                                              *)
(***************************************************************************)
HasLogged(message) == \E i \in 1 .. Len(logged) : logged[i].message = message
CyclesInFlight == {c \in CycleIds : refresh[c].pc # "idle"}
\* a step in which a refresh cycle issues its first adapter call
CycleStarts == \E c \in CycleIds : refresh[c].pc = "idle" /\ refresh'[c].pc # "idle"

\* C1: at most one refresh cycle is in flight at any time, and a refresh
\* request that arrives while a cycle is in flight starts no cycle and issues
\* no adapter call: in every step, no cycle starts while one is in flight,
\* and isRefreshing is set exactly while a cycle is in flight.
C1_AtMostOneRefresh ==
  [][/\ Cardinality(CyclesInFlight') <= 1
     /\ CyclesInFlight # {} => ~CycleStarts
     /\ isRefreshing' <=> CyclesInFlight' # {}]_vars

\* the post-action refresh after a successful cancel arrived while the
\* timer's cycle was still waiting for `gh`, and was dropped
C1_Witness ==
  /\ CyclesInFlight # {}
  /\ HasLogged("Successfully cancelled workflow run")
  /\ ~HasLogged("Refreshing data...")

\* C7: while the help dialog or the kill confirmation is on screen, no
\* refresh cycle starts.
HelpOpen == ~helpHidden
ConfirmOpen == confirmBox # 0
C7_NoRefreshWhileModal ==
  [][(HelpOpen \/ ConfirmOpen) /\ (HelpOpen' \/ ConfirmOpen') => ~CycleStarts]_vars


Range(seq) == {seq[i] : i \in 1 .. Len(seq)}
\* no poll cycle and no resurrect is waiting for `gh`
Quiescent == CyclesInFlight = {} /\ \A q \in ResurrectIds : resurrect[q].pc = "idle"

\* C2: after each poll cycle, dismiss, dismiss-all and resurrect, a run is
\* rendered if and only if its status is not completed or it is in the
\* CompletedPending set: every rendered run that is completed is in
\* completedWorkflows, and every run in completedWorkflows is rendered.
C2_VisibleIff ==
  Quiescent =>
    /\ \A w \in Range(workflows) : w.status # "completed" \/ w.id \in completedWorkflows
    /\ completedWorkflows \subseteq Ids(workflows)

\* C3: dismissing the selected run, when it is rendered as completed and is
\* in the CompletedPending set, leaves no card with its id, issues no adapter
\* query and starts no poll cycle.
C3_DismissIsLocal ==
  [][Key("d") /\ HasSelected(State) /\ Selected(State).status = "completed"
       /\ Selected(State).id \in completedWorkflows
     => /\ Selected(State).id \notin Ids(workflows')
        /\ refresh' = refresh /\ resurrect' = resurrect /\ cache' = cache
        /\ isRefreshing' = isRefreshing]_vars

\* C4: dismiss-all empties the CompletedPending set, removes from the
\* rendered list exactly the runs that were in it, and leaves the watched set
\* as it was.
C4_DismissAllExact ==
  [][Key("D")
     => /\ completedWorkflows' = {}
        /\ workflows' = SelectSeq(workflows, LAMBDA w : w.id \notin completedWorkflows)
        /\ watchedWorkflows' = watchedWorkflows]_vars


\* C8: a cycle in which run queries fail still completes, and what it
\* renders is exactly the non-completed or CompletedPending runs of the
\* repositories that answered.  Checked at the step in which the query of
\* the last repository settles (answered or failed): the cycle goes on to its
\* job queries or publishes, without reporting an error, and its visible list is
\* the filter of the runs that were answered.
C8_PartialFailure ==
  [][\A c \in CycleIds, outcome \in {"ok", "fail"} :
       RefreshRunsAnswer(c, outcome) /\ refresh[c].i = Len(Repos)
       => LET answered ==
                Range(refresh[c].allRuns)
                  \cup (IF outcome = "ok"
                        THEN Range(GhRunList(runStatus, Repos[refresh[c].i], DefaultLimit, 0))
                        ELSE {})
              visible == IF refresh'[c].pc = "jobs" THEN refresh'[c].workflows
                         ELSE workflows'
          IN /\ refresh'[c].pc \in {"jobs", "idle"}
             /\ \A i \in 1 .. Len(logged') : logged'[i].type # "error"
             /\ Range(visible) =
                  {w \in answered : w.status # "completed" \/ w.id \in completedWorkflows'}]_vars

\* the first cycle is over: A answered its in-progress run, B its completed
\* run that was never seen before, C failed; only A's run is rendered
C8_Witness ==
  /\ Quiescent /\ faults = 1 /\ now = 0
  /\ cache[RunsKey("A")].data = <<Run(1, "in_progress")>>
  /\ cache[RunsKey("B")].data = <<Run(2, "completed")>>
  /\ cache[RunsKey("C")] = NoEntry
  /\ watchedWorkflows = {1} /\ completedWorkflows = {}
  /\ workflows = <<Run(1, "in_progress")>>
  /\ grid = <<"card">>

\* a resurrect call returns in this step; before: the cursor it was called with
ResurrectReturns(q, before) ==
  \/ Resurrect(q) /\ resurrect'[q].pc = "idle" /\ before = oldestWorkflowTimestamp
  \/ resurrect[q].pc = "runs" /\ resurrect'[q].pc = "idle" /\ before = resurrect[q].before

\* C9: a resurrect call never leaves the oldest-seen cursor later than it was
\* before the call.
C9_CursorNeverForward ==
  [][\A q \in ResurrectIds, before \in 0 .. NumRuns :
       ResurrectReturns(q, before) => oldestWorkflowTimestamp' <= before]_vars

\* C10: when no run is strictly older than the cursor, a resurrect call
\* changes neither the cursor, nor the watched and CompletedPending sets, nor
\* the rendered list; it only logs.
C10_ResurrectNoOp ==
  [][\A q \in ResurrectIds, before \in 0 .. NumRuns :
       ResurrectReturns(q, before) /\ (\A id \in RunIds : ~(CreatedAt(id) < before))
       => /\ oldestWorkflowTimestamp' = oldestWorkflowTimestamp
          /\ watchedWorkflows' = watchedWorkflows
          /\ completedWorkflows' = completedWorkflows
          /\ workflows' = workflows
          /\ logged' # <<>>]_vars


\* the services the container-service strip shows for the last snapshot
ServiceCount == Len(FlatServices(dockerServices, 1, <<>>))
InRange(index, count) == count = 0 \/ (0 <= index /\ index < count)

\* C5: after every move and every snapshot, the selection index of each
\* region (workflow grid, pull-request strip, container-service strip) is
\* within [0, count) for that region, or the region has no items.
C5_SelectionInRange ==
  /\ InRange(selectedIndex, Len(workflows))
  /\ InRange(selectedPRIndex, Len(pullRequests))
  /\ InRange(selectedDockerIndex, ServiceCount)

\* C6: from the top row of the workflow grid, the up key makes the
\* pull-request strip the active region if it has items, otherwise the
\* container-service strip if it has items, otherwise it changes nothing.
C6_UpFromTopRow ==
  [][Key("up") /\ selectionMode = "workflows" /\ IndexToCoords(State, selectedIndex).row = 0
     => IF Len(pullRequests) > 0 THEN selectionMode' = "prs"
        ELSE IF ServiceCount > 0 THEN selectionMode' = "docker"
        ELSE /\ selectionMode' = selectionMode
             /\ selectedIndex' = selectedIndex
             /\ selectedPRIndex' = selectedPRIndex
             /\ selectedDockerIndex' = selectedDockerIndex]_vars


\* the last step logged message
LoggedNow(message) == \E i \in 1 .. Len(logged') : logged'[i].message = message

\* C11: every run admitted by a resurrect call has a creation time strictly
\* older than that of every run displayed when the call was made.  Stated for
\* the calls that return in the step they are made in, where the rendered
\* list of the call is the list before the step and the admitted run is the
\* card appended by the step.
C11_ResurrectAdmitsOlder ==
  [][\A q \in ResurrectIds :
       Resurrect(q) /\ resurrect'[q].pc = "idle" /\ LoggedNow("Resurrected workflow")
       => \A w \in Range(workflows) :
            workflows'[Len(workflows')].createdAt < w.createdAt]_vars


\* the run-list entry of a repository is within its time to live
Live(repo) ==
  /\ cache[RunsKey(repo)] # NoEntry
  /\ now - cache[RunsKey(repo)].timestamp <= cacheTimeout

\* the first repository from index from on whose entry is not live
FirstStale(from) ==
  IF \E j \in from .. Len(Repos) : ~Live(Repos[j])
  THEN CHOOSE j \in from .. Len(Repos) :
         ~Live(Repos[j]) /\ \A k \in from .. j - 1 : Live(Repos[k])
  ELSE Len(Repos) + 1

\* the stored run lists of the repositories from .. to - 1, in order
RECURSIVE CachedRuns(_, _)
CachedRuns(from, to) ==
  IF from >= to THEN <<>>
  ELSE cache[RunsKey(Repos[from])].data \o CachedRuns(from + 1, to)

\* the calls to `gh run list` that are waiting for their answer
WaitingCalls(rf, rs) ==
  {<<"cycle", c>> : c \in {x \in CycleIds : rf[x].pc = "runs"}}
    \cup {<<"resurrect", q>> : q \in {x \in ResurrectIds : rs[x].pc = "runs"}}

\* C12: a stored run list fetched again before its time to live has expired
\* is returned unchanged without a call to `gh`, and the first fetch after
\* the expiry makes exactly one call.  In the step in which a poll cycle
\* starts, the cycle takes the stored lists of the repositories whose entries
\* are live, unchanged and in order, up to the first repository whose entry
\* is missing or expired; for that repository it makes one call and waits,
\* the expired entry being dropped; when every entry is live it makes no
\* call at all and goes on with the stored lists.
C12_CacheRoundTrip ==
  [][LoggedNow("Refreshing data...")
     => LET stale == FirstStale(1) IN
        IF stale <= Len(Repos)
        THEN \E c \in CycleIds :
               /\ refresh[c].pc = "idle"
               /\ refresh'[c].pc = "runs"
               /\ refresh'[c].i = stale
               /\ refresh'[c].allRuns = CachedRuns(1, stale)
               /\ WaitingCalls(refresh', resurrect')
                    = WaitingCalls(refresh, resurrect) \cup {<<"cycle", c>>}
               /\ cache' = [cache EXCEPT ![RunsKey(Repos[stale])] = NoEntry]
        ELSE /\ WaitingCalls(refresh', resurrect') = WaitingCalls(refresh, resurrect)
             /\ \A k \in CacheKeys : k[1] = "runs" => cache'[k] = cache[k]
             /\ LET all == SortByCreatedDesc(CachedRuns(1, Len(Repos) + 1)) IN
                \/ \E c \in CycleIds : refresh'[c].pc = "jobs" /\ refresh'[c].allRuns = all
                \/ /\ \A c \in CycleIds : refresh'[c].pc = "idle"
                   /\ workflows' = VisibleOf(all, completedWorkflows')]_vars

\* the entries stored by the poll at time 0 have expired, the one of
\* repository A was stored again and the one of repository B was dropped; a
\* cycle has just started: A's list came from the cache, and the cycle waits
\* for the one call it made, for repository B
C12_Witness ==
  /\ now = TickMs
  /\ HasLogged("Refreshing data...")
  /\ \E c \in CycleIds :
       /\ refresh[c].pc = "runs" /\ refresh[c].i = 2
       /\ refresh[c].allRuns = cache[RunsKey("A")].data
       /\ refresh[c].allRuns # <<>>
  /\ cache[RunsKey("A")].timestamp = TickMs
  /\ cache[RunsKey("B")] = NoEntry
  /\ cache[RunsKey("C")].timestamp = 0
  /\ WaitingCalls(refresh, resurrect) = {<<"cycle", CHOOSE c \in CycleIds : refresh[c].pc = "runs">>}


\* C13: after one message has been appended at each of the five levels,
\* rendering with filter debug shows exactly the info, event, error and debug
\* messages and omits the trace message; rendering with filter trace shows
\* all five.
TypesLogged == {logged[i].type : i \in 1 .. Len(logged)}
MessagesOf(types) == {logged[i].message : i \in {j \in 1 .. Len(logged) : logged[j].type \in types}}
MessagesShown(box) == {box[i][2] : i \in 1 .. Len(box)}

C13_LogFilter ==
  [][DebugBoxTimer /\ Len(logged) = Len(LogTypes) /\ TypesLogged = Range(LogTypes)
     => /\ logLevel = "debug"
           => /\ MessagesShown(debugBox') = MessagesOf({"info", "event", "error", "debug"})
              /\ Len(debugBox') = 4
        /\ logLevel = "trace"
           => /\ MessagesShown(debugBox') = MessagesOf(Range(LogTypes))
              /\ Len(debugBox') = 5]_vars

\* the five levels were logged, trace first and debug last, and the box was
\* rendered under filter debug: four lines, none of them the trace message
C13_Witness ==
  /\ logLevel = "debug"
  /\ Len(logged) = Len(LogTypes) /\ TypesLogged = Range(LogTypes)
  /\ logged[1].type = "trace" /\ logged[5].type = "debug"
  /\ Len(debugBox) = 4
  /\ MessagesShown(debugBox) = {2, 3, 4, 5}

\* C14: after k appends the event log holds exactly the most recent
\* min(k, 100) messages in append order, each as it was appended: the call
\* that appends message k leaves messages k - min(k, 100) + 1 .. k, with the
\* levels they were logged at.
C14_LogKeepsLast ==
  [][\A type \in Range(LogTypes) :
       LogMessage(type)
       => LET k == NextMessage
              n == Min(k, maxLogMessages)
          IN /\ Len(logged') = n
             /\ \A i \in 1 .. n :
                  /\ logged'[i].message = k - n + i
                  /\ logged'[i].type = RoundType(k - n + i)
                  /\ logged'[i].formatted = <<TypeColor(RoundType(k - n + i)), k - n + i>>]_vars

\* 105 messages were appended: the log is full and the five oldest are gone
C14_Witness ==
  /\ Len(logged) = maxLogMessages
  /\ logged[1].message = 6
  /\ logged[maxLogMessages].message = 105


\* the selection of every region is in range and the service list that the
\* navigation uses is the one of the last snapshot
Coherent ==
  /\ C5_SelectionInRange
  /\ flatDockerServices = FlatServices(dockerServices, 1, <<>>)

\* the target of the move lies outside the three regions
OutOfSpace(key) ==
  CASE selectionMode = "workflows" ->
         /\ Len(workflows) > 0
         /\ LET cur == IndexToCoords(State, selectedIndex) IN
            \/ key = "left" /\ cur.col = 0
            \/ key = "right" /\ cur.col = cols - 1
            \/ key = "down" /\ cur.row = rows - 1
            \/ key = "up" /\ cur.row = 0 /\ Len(pullRequests) = 0 /\ ServiceCount = 0
    [] selectionMode = "prs" ->
         key = "up" /\ Len(pullRequests) > 0 /\ ServiceCount = 0
    [] OTHER ->
         key = "up" /\ ServiceCount > 0

SelectionUnchanged ==
  /\ selectionMode' = selectionMode
  /\ selectedIndex' = selectedIndex
  /\ selectedPRIndex' = selectedPRIndex
  /\ selectedDockerIndex' = selectedDockerIndex

\* C15: a move whose target lies outside the combined navigation space (left,
\* right or down past the edge of the workflow grid, up from the topmost
\* non-empty region) leaves the active region and every selection index
\* unchanged.
C15_NoWrapAtEdges ==
  [][\A key \in {"up", "down", "left", "right"} :
       Key(key) /\ Coherent /\ OutOfSpace(key) => SelectionUnchanged]_vars


\* the cell one step from the selected cell of the workflow grid
TargetCell(key) ==
  LET cur == IndexToCoords(State, selectedIndex) IN
  [row |-> cur.row + (IF key = "down" THEN 1 ELSE IF key = "up" THEN 0 - 1 ELSE 0),
   col |-> cur.col + (IF key = "right" THEN 1 ELSE IF key = "left" THEN 0 - 1 ELSE 0)]

\* the cell is in the grid but holds no run
EmptyCell(cell) ==
  /\ 0 <= cell.row /\ cell.row < rows
  /\ 0 <= cell.col /\ cell.col < cols
  /\ cell.row * cols + cell.col >= Len(workflows)

\* C16: a move inside the workflow grid never lands on a cell at or beyond
\* the current run count, and a move into the empty part of the last,
\* partially filled row leaves the selection unchanged.
C16_NoEmptyCell ==
  [][\A key \in {"up", "down", "left", "right"} :
       Key(key) /\ selectionMode = "workflows" /\ selectionMode' = "workflows"
         /\ HasSelected(State)
       => /\ 0 <= selectedIndex' /\ selectedIndex' < Len(workflows)
          /\ EmptyCell(TargetCell(key)) => selectedIndex' = selectedIndex]_vars

\* three runs in a grid of two columns: the selection was moved down to the
\* only card of the last row, next to the empty cell
C16_Witness ==
  /\ selectionMode = "workflows"
  /\ Len(workflows) = 3 /\ Len(grid) = 3 /\ cols = 2 /\ rows = 2
  /\ selectedIndex = 2
  /\ EmptyCell(TargetCell("right"))


\* the selected column of the strip that is the active region
StripIndex == IF selectionMode = "prs" THEN selectedPRIndex ELSE selectedDockerIndex
StripCount == IF selectionMode = "prs" THEN Len(pullRequests) ELSE ServiceCount

\* C17: moving down out of the container-service strip or out of the
\* pull-request strip makes the workflow grid the active region, with the
\* workflow selection set to the strip's selected column index clamped into
\* the grid: to the last column, and to the last run.
C17_DownLeavesStrip ==
  [][Key("down") /\ Coherent /\ selectionMode \in {"prs", "docker"} /\ StripCount > 0
       /\ Len(workflows) > 0
     => /\ selectionMode' = "workflows"
        /\ selectedIndex' = Min(Min(StripIndex, cols - 1), Len(workflows) - 1)]_vars


\* the least k with k * k >= n, and the least r with r * c >= n
LeastRoot(n) == CHOOSE k \in 0 .. n : k * k >= n /\ \A j \in 0 .. k - 1 : j * j < n
LeastRows(n, c) == CHOOSE r \in 0 .. n : r * c >= n /\ \A j \in 0 .. r - 1 : j * c < n

\* C18: after every layout of n >= 1 visible runs the grid has cols = 1 when
\* n = 1 and cols = min(ceil(sqrt(n)), 3) otherwise, with rows = ceil(n / cols),
\* so rows * cols >= n and every run has a card in a cell of its own.
C18_GridShape ==
  LET n == Len(workflows) IN
  n >= 1 =>
    /\ cols = (IF n = 1 THEN 1 ELSE Min(LeastRoot(n), 3))
    /\ rows = LeastRows(n, cols)
    /\ rows * cols >= n
    /\ Len(grid) = n /\ \A i \in 1 .. n : grid[i] = "card"
    /\ \A i, j \in 0 .. n - 1 :
         /\ IsValidGridPosition(State, IndexToCoords(State, i).row, IndexToCoords(State, i).col)
         /\ i # j => IndexToCoords(State, i) # IndexToCoords(State, j)

\* ten runs: the square root rounds up to four, the grid has three columns
\* and four rows, and the selection has been moved to the last card
C18_Witness ==
  /\ Len(workflows) = 10 /\ Len(grid) = 10
  /\ cols = 3 /\ rows = 4
  /\ selectedIndex = 9


\* the run query of the last repository fails in this step, after the
\* queries of all the others failed in the same cycle: every repository
\* before the last has runs, so a cycle that has collected none by then has
\* had no answer and no cache entry for any of them
TotalFailure(c) ==
  /\ OutageRunsAnswer(c, "fail")
  /\ refresh[c].i = Len(Repos)
  /\ refresh[c].allRuns = <<>>
  /\ \A i \in 1 .. Len(Repos) - 1 : GhRunList(runStatus, Repos[i], DefaultLimit, 0) # <<>>

\* C19: when every repository's run query fails in a cycle, the dashboard
\* shows the error state in place of the grid, not the empty no-workflows
\* state, and a manual refresh remains available.
C19_TotalFailureShowsError ==
  [][\A c \in CycleIds :
       TotalFailure(c)
       => /\ grid' = <<"error">>
          /\ ~isRefreshing' /\ ~modalOpen']_vars


\* what the step showed the user
ErrorLogged == \E i \in 1 .. Len(logged') : logged'[i].type = "error"
ErrorShown == ErrorLogged /\ grid' = <<"error">>

\* C20: an adapter query returns an empty list on an ordinary failure, and on
\* a rate-limit failure raises an error that reaches the caller and is shown
\* to the user.  For the run list: a failed query adds nothing, stores
\* nothing and lets the cycle go on without an error, and a rate-limited one
\* ends the cycle with the error on screen.  For the job list: a rate-limited
\* query ends the cycle with the error on screen.
C20_FailSoftExceptRateLimit ==
  [][\A c \in CycleIds :
       /\ OutageRunsAnswer(c, "fail")
          => /\ ~ErrorLogged
             /\ refresh'[c].pc \in {"runs", "jobs", "idle"}
             /\ cache'[RunsKey(Repos[refresh[c].i])] = NoEntry
       /\ OutageRunsAnswer(c, "ratelimit")
          => ErrorShown /\ refresh'[c].pc = "idle"
       /\ \A ok \in SUBSET RunIds :
            RefreshJobsRateLimit(c, ok) => ErrorShown /\ refresh'[c].pc = "idle"]_vars


\* C21: each repository whose run query fails in a cycle causes an
\* error-level entry to be appended to the event log, while the cycle goes on
\* with the remaining repositories (or, after the last one, with its job
\* queries and its snapshot).
C21_FailureIsLogged ==
  [][\A c \in CycleIds :
       OutageRunsAnswer(c, "fail")
       => /\ ErrorLogged
          /\ refresh'[c].pc \in {"runs", "jobs", "idle"}
          /\ refresh'[c].pc = "runs" => refresh'[c].i > refresh[c].i]_vars

(***************************************************************************)
(* SpecRelayout: the snapshots and the direction keys of SpecLayout, on a  *)
(* terminal that is resized and with the log panel opened and closed.      *)
(***************************************************************************)
\* the "resize" handler of the screen
Resize ==
  /\ ~exited
  /\ Becomes(LayoutWorkflows(StartStep(State)))

NextRelayout ==
  \/ \E n \in 0 .. MaxCards, p \in 0 .. MaxLayoutPRs : Snapshot(n, p, <<>>)
  \/ \E key \in {"up", "down", "left", "right", "f9"} : Key(key)
  \/ Resize

SpecRelayout == Init /\ [][NextRelayout]_vars

(***************************************************************************)
(* SpecShutdown: the polls, and the program interrupted at any moment by   *)
(* the signal or by the quit key.                                          *)
(***************************************************************************)
InitShutdown == InitFrom(AbsentFile) /\ ~appShowPRs /\ ~markQueries

NextShutdown ==
  \/ Tick
  \/ \E id \in RunIds : RunCompletes(id)
  \/ TimerRefresh
  \/ \E key \in {"r", "q"} : Key(key)
  \/ Sigint
  \/ \E c \in CycleIds, outcome \in Outcomes : RefreshRunsAnswer(c, outcome)
  \/ \E c \in CycleIds, ok \in SUBSET RunIds : RefreshJobsAnswer(c, ok)

SpecShutdown == InitShutdown /\ [][NextShutdown]_vars

(***************************************************************************)
(* Preferences and shutdown.                                               *)
(***************************************************************************)
WriteAttempts(fx) == {i \in 1 .. Len(fx) : fx[i] \in {"write", "write failed"}}
Writes(fx) == {i \in 1 .. Len(fx) : fx[i] = "write"}

\* the record of the file holds the preferences in memory
FileHoldsMemory ==
  /\ prefsFile.kind = "json"
  /\ prefsFile.debugBoxHeight = Num(debugBoxHeight)
  /\ prefsFile.autoShowDebug = Bool(autoShowDebug)
  /\ prefsFile.logLevel = Str(logLevel)

PrefsChange ==
  \/ debugBoxHeight' # debugBoxHeight
  \/ autoShowDebug' # autoShowDebug
  \/ logLevel' # logLevel

\* C22: a step that changes a preference (the height of the log panel, the
\* auto-show flag, the log level) writes the preferences file within the step,
\* so before the next input event; the step that shuts the program down writes
\* it again; and after a step with a write that succeeded the record of the
\* file equals the preferences in memory.
C22_PrefsWrittenThrough ==
  [][/\ PrefsChange => WriteAttempts(effects') # {}
     /\ exited' => WriteAttempts(effects') # {}
     /\ Writes(effects') # {} => FileHoldsMemory']_vars

\* C23: whatever the preferences file holds, after startup and ever after the
\* height of the log panel lies between minDebugHeight and maxDebugHeight and
\* the log level is one of info, debug, trace.
C23_PrefsInDomain ==
  /\ debugBoxHeight \in minDebugHeight .. maxDebugHeight
  /\ logLevel \in LogLevels

\* the effects of a shutdown: the preferences are written (or the write is
\* tried and fails), then the terminal is released, and the exit comes last
ShutdownInOrder(fx) ==
  /\ Len(fx) >= 3
  /\ fx[1] \in {"write", "write failed"}
  /\ fx[Len(fx)] = "exit"
  /\ \E j \in 2 .. Len(fx) - 1 : fx[j] = "release"
  /\ \A i \in 1 .. Len(fx) - 1 : fx[i] # "exit"

\* C24: the interrupt signal (and the quit key, which runs the same
\* cleanup) persists the preferences, releases the terminal and exits, in
\* that order and in the very step of the signal, whatever the program was
\* doing: a refresh in flight is not waited for.
C24_InterruptShutsDown ==
  [][Sigint \/ Key("q") => exited' /\ ShutdownInOrder(effects')]_vars

\* the program has exited on SIGINT while a poll cycle waited for `gh`
C24_Witness ==
  /\ exited
  /\ isRefreshing
  /\ \E c \in CycleIds : refresh[c].pc \in {"runs", "jobs"}
  /\ HasLogged("Received SIGINT")

(***************************************************************************)
(* Actions: the cancel of a run stands for the actions of the App (the     *)
(* merge and the Docker handlers end in the same three lines).             *)
(***************************************************************************)
\* C25: the step in which the command of an action succeeds starts a poll
\* cycle (the forced refresh is not dropped), and that cycle takes nothing
\* from what was fetched before the action completed: it asks `gh` for the
\* runs of every repository, from the first one on.
C25_ActionForcesRefresh ==
  [][KillAnswer(TRUE)
     => /\ LoggedNow("Refreshing data...")
        /\ \E c \in CycleIds :
             /\ refresh[c].pc = "idle"
             /\ refresh'[c].pc = "runs"
             /\ refresh'[c].i = 1]_vars

\* C26: the step in which the command of an action fails appends an
\* error-level entry to the log, leaves the watched set, the set of completed
\* runs still shown and the visible runs as they were, and starts no poll
\* cycle.
C26_FailedActionIsInert ==
  [][KillAnswer(FALSE)
     => /\ \E i \in 1 .. Len(logged') :
             logged'[i].type = "error" /\ logged'[i].message = "Failed to cancel workflow"
        /\ UNCHANGED <<watchedWorkflows, completedWorkflows, workflows>>
        /\ UNCHANGED <<refresh, isRefreshing>>
        /\ ~LoggedNow("Refreshing data...")]_vars

\* `gh run cancel` has failed while runs were on screen and no cycle was in
\* flight (a refresh would have started, had the handler asked for one)
C26_Witness ==
  /\ HasLogged("Failed to cancel workflow")
  /\ workflows # <<>>
  /\ watchedWorkflows # {}
  /\ ~isRefreshing
  /\ ~modalOpen

\* a step of a poll cycle: its start, or the answer of `gh` to one of its
\* queries
PollStep ==
  \/ TimerRefresh
  \/ Key("r")
  \/ \E c \in CycleIds, outcome \in Outcomes : RefreshRunsAnswer(c, outcome)
  \/ \E c \in CycleIds, ok \in SUBSET RunIds : RefreshJobsAnswer(c, ok)

\* C27: a run on screen stays on screen through every poll cycle, whether
\* the polls still return its id or not: no step of a poll cycle takes a run
\* out of the visible list (only a dismissal does).
C27_VisibleUntilDismissed ==
  [][PollStep => Ids(workflows) \subseteq Ids(workflows')]_vars

\* a step that lays the grid out again: the terminal is resized, the log
\* panel is opened or closed, or a snapshot brings another number of runs
Relayout ==
  \/ Resize
  \/ Key("f9")
  \/ /\ \E n \in 0 .. MaxCards, p \in 0 .. MaxLayoutPRs : Snapshot(n, p, <<>>)
     /\ Len(workflows') # Len(workflows)

\* C28: a re-layout leaves the selection index of the grid as it was when
\* it is a valid index of the new list of runs, and otherwise moves it to a
\* valid index (when there is one); so it selects index 0 only when the index
\* it found was not valid.
C28_RelayoutKeepsSelection ==
  [][Relayout
     => LET n == Len(workflows') IN
        IF 0 <= selectedIndex /\ selectedIndex < n
        THEN selectedIndex' = selectedIndex
        ELSE n > 0 => (0 <= selectedIndex' /\ selectedIndex' < n)]_vars

\* the number of items a region shows for the last snapshot, and its
\* selection index
RegionCount(mode) ==
  CASE mode = "workflows" -> Len(workflows)
    [] mode = "prs" -> Len(pullRequests)
    [] OTHER -> ServiceCount

RegionCountAfter(mode) ==
  CASE mode = "workflows" -> Len(workflows')
    [] mode = "prs" -> Len(pullRequests')
    [] OTHER -> ServiceCount'

RegionIndex(mode) ==
  CASE mode = "workflows" -> selectedIndex
    [] mode = "prs" -> selectedPRIndex
    [] OTHER -> selectedDockerIndex

Regions == {"workflows", "prs", "docker"}

\* C29: a snapshot that empties a region resets the selection index of that
\* region to 0, and no key makes an empty region the active one.
C29_EmptyRegionIsLeftOut ==
  [][/\ \A mode \in Regions :
          (/\ RegionCount(mode) > 0
           /\ RegionCountAfter(mode) = 0
           /\ \E n \in 0 .. MaxCards, p \in 0 .. MaxPRs, ds \in DockerSnapshots :
                Snapshot(n, p, ds))
          => RegionIndex(mode)' = 0
     /\ (/\ selectionMode' # selectionMode
         /\ \E key \in {"up", "down", "left", "right"} : Key(key))
        => RegionCountAfter(selectionMode') > 0]_vars

\* C30: a call of log() at a level that the filter level hides appends the
\* entry to the log all the same (it is there for a later rendering under a
\* higher filter level) and schedules no redraw of the log panel: the redraw
\* timer is as it was.
C30_HiddenAppendIsQuiet ==
  [][\A i \in 1 .. Len(LogTypes) :
       EarlyLogMessage(LogTypes[i]) /\ ~Shown(LogTypes[i], logLevel)
       => /\ Len(logged') = Len(logged) + 1
          /\ logged'[Len(logged')].type = LogTypes[i]
          /\ SubSeq(logged', 1, Len(logged)) = logged
          /\ debugUpdateTimer' = debugUpdateTimer]_vars

(***************************************************************************)
(* The debounce of the log panel.                                          *)
(***************************************************************************)
\* the lines the panel shows when it renders the log under the filter level
Rendering(log, level) ==
  LET Pass(msg) == Shown(msg.type, level)
      kept == SelectSeq(log, Pass)
  IN [i \in 1 .. Len(kept) |-> kept[i].formatted]

\* C31: with the log panel shown, an append arms the redraw timer when it is
\* not armed and otherwise leaves it armed, and redraws nothing itself; the
\* one firing of the timer that ends the window redraws the panel with every
\* retained message that passes the filter, the last one appended included,
\* and disarms the timer, so that no second redraw follows the burst.
C31_DebounceCoalesces ==
  [][/\ (\E i \in 1 .. Len(LogTypes) : EarlyLogMessage(LogTypes[i]))
        => /\ debugUpdateTimer'
           /\ debugBox' = debugBox
     /\ DebugBoxTimer
        => /\ debugBox' = Rendering(logged, logLevel)
           /\ ~debugUpdateTimer'
     /\ debugBox' # debugBox => debugUpdateTimer /\ ~debugUpdateTimer']_vars

\* a burst of MaxFilterAppends messages has been redrawn under the filter
\* trace: the panel shows all of them, the last included, and no redraw is
\* pending
C31_Witness ==
  /\ showDebug
  /\ logLevel = "trace"
  /\ Len(logged) = MaxFilterAppends
  /\ Len(debugBox) = MaxFilterAppends
  /\ debugBox[MaxFilterAppends] = logged[MaxFilterAppends].formatted
  /\ ~debugUpdateTimer

(***************************************************************************)
(* The cache and the two kinds of run-list query.                          *)
(***************************************************************************)
\* SpecCache: the polls and the resurrections, with the stored run lists
\* marked with their query
InitCache == InitFrom(AbsentFile) /\ prefsWritable /\ ~appShowPRs /\ markQueries

NextCache ==
  \/ Tick
  \/ \E id \in RunIds : RunCompletes(id)
  \/ TimerRefresh
  \/ \E c \in CycleIds, outcome \in Outcomes : RefreshRunsAnswer(c, outcome)
  \/ \E c \in CycleIds : RefreshJobsAnswer(c, RunIds)
  \/ \E q \in ResurrectIds : Resurrect(q)
  \/ \E q \in ResurrectIds : ResurrectRunsAnswer(q, "ok")

SpecCache == InitCache /\ [][NextCache]_vars

\* the repositories whose run list a loop over the repositories took from
\* the cache in this step: the loop stood at repository `from` (0 before its
\* start) and stands at `to` after the step
TakenFromCache(from, to) ==
  {j \in 1 .. Len(Repos) : from < j /\ j < to}

\* C32: a run-list query is answered from the cache only with what a query
\* of its own kind stored: a poll cycle takes no entry stored by a
\* before-filtered query, and a resurrect call takes no entry stored by a
\* query without its filter.
C32_CacheKeptApart ==
  [][/\ \A c \in CycleIds :
          (\/ HasIdleCycle(State) /\ c = IdleCycleOf(State)
                /\ LoggedNow("Refreshing data...")
           \/ refresh[c].pc = "runs" /\ refresh'[c] # refresh[c] /\ ~ErrorLogged)
          => \A j \in TakenFromCache(IF refresh[c].pc = "runs" THEN refresh[c].i ELSE 0,
                                     IF refresh'[c].pc = "runs" THEN refresh'[c].i
                                     ELSE Len(Repos) + 1) :
               cache'[RunsKey(Repos[j])].before = 0
     /\ \A q \in ResurrectIds :
          (\/ resurrect[q].pc = "idle" /\ LoggedNow("Fetching older workflow")
           \/ resurrect[q].pc = "runs" /\ resurrect'[q] # resurrect[q]
                /\ ~LoggedNow("Failed to resurrect workflow"))
          => \A j \in TakenFromCache(IF resurrect[q].pc = "runs" THEN resurrect[q].i ELSE 0,
                                     IF resurrect'[q].pc = "runs" THEN resurrect'[q].i
                                     ELSE Len(Repos) + 1) :
               cache'[RunsKey(Repos[j])].before =
                 IF resurrect[q].pc = "runs" THEN resurrect[q].before
                 ELSE oldestWorkflowTimestamp]_vars

(***************************************************************************)
(* The job map.                                                            *)
(***************************************************************************)
\* a poll cycle publishes its snapshot in this step
CyclePublishes ==
  /\ isRefreshing \/ LoggedNow("Refreshing data...")
  /\ ~isRefreshing'
  /\ ~ErrorLogged

\* C33: a cycle asks for the jobs of non-completed runs of its visible list
\* only, and the step in which it publishes leaves the job map with an entry
\* for each non-completed run of the list it publishes and with no other
\* entry.
C33_JobMapReplaced ==
  [][/\ \A c \in CycleIds :
          refresh'[c].pc = "jobs"
          => refresh'[c].pending \subseteq NonCompleted(refresh'[c].workflows)
     /\ CyclePublishes => jobs' = NonCompleted(workflows')]_vars

\* a cycle has published a list with a running run and a completed run that
\* was running in an earlier cycle: the map holds the first and not the second
C33_Witness ==
  /\ ~isRefreshing
  /\ jobs # {}
  /\ jobs = NonCompleted(workflows)
  /\ \E i \in 1 .. Len(workflows) :
       /\ workflows[i].status = "completed"
       /\ workflows[i].id \in watchedWorkflows
       /\ workflows[i].id \notin jobs


(***************************************************************************)
(* An App started with --prs: each cycle fetches the pull requests after   *)
(* the runs, and the user dismisses and resurrects during the cycles.      *)
(***************************************************************************)
InitPublish == InitFrom(AbsentFile) /\ prefsWritable /\ appShowPRs /\ ~markQueries

NextPublish ==
  \/ Tick
  \/ \E id \in RunIds : RunCompletes(id)
  \/ PullRequestOpens
  \/ TimerRefresh
  \/ Key("D")
  \/ \E c \in CycleIds : RefreshRunsAnswer(c, "ok")
  \/ \E c \in CycleIds : RefreshPRsAnswer(c, "ok")
  \/ \E c \in CycleIds : RefreshJobsAnswer(c, RunIds)
  \/ \E q \in ResurrectIds : Resurrect(q)
  \/ \E q \in ResurrectIds : ResurrectRunsAnswer(q, "ok")

SpecPublish == InitPublish /\ [][NextPublish]_vars

\* C34: what a cycle in flight has fetched is displayed only by the step in
\* which the cycle publishes: the pull-request list of the displayed
\* snapshot changes in no other step, a dismissal or a resurrection during
\* the cycle included.
C34_PublishedAtOnce == [][pullRequests' # pullRequests => CyclePublishes]_vars


(***************************************************************************)
(* Dismissed runs.                                                         *)
(***************************************************************************)
\* a completed run the user has dismissed: it is neither displayed, nor
\* watched, nor pending confirmation
Dismissed(id) ==
  /\ runStatus[id] = "completed"
  /\ id \notin Ids(workflows)
  /\ id \notin watchedWorkflows
  /\ id \notin completedWorkflows

\* C35: a dismissed run stays off the screen: no step other than a
\* resurrection puts it back in the visible list as a completed run, the
\* publication of a cycle that was in flight at the dismissal included.
C35_DismissedStaysAway ==
  [][\A id \in RunIds :
       Dismissed(id) /\ ~LoggedNow("Resurrected workflow")
       => \A i \in 1 .. Len(workflows') :
            workflows'[i].id = id => workflows'[i].status # "completed"]_vars


\* C36: the visible list holds each run id at most once, after every
\* interleaving of polls, dismissals and resurrections.
C36_NoRunTwice == Cardinality(Ids(workflows)) = Len(workflows)


(***************************************************************************)
(* The grid after a snapshot.                                              *)
(***************************************************************************)
\* one card per visible run, or the single "no workflows" box
GridOf(runs) == IF Len(runs) = 0 THEN <<"empty">> ELSE [i \in 1 .. Len(runs) |-> "card"]

\* C37: when a cycle publishes its snapshot while no modal is open, the
\* grid is left with exactly one card per visible run, or with the single
\* placeholder when no run is visible; so after a modal was closed and after
\* the error screen.
C37_GridMatchesSnapshot ==
  [][~modalOpen /\ CyclePublishes => grid' = GridOf(workflows')]_vars


\* C38: with the kill confirmation on screen, a press of y, n or escape
\* closes it and clears the modal flag, whatever keys were pressed since it
\* opened.
C38_ConfirmationCloses ==
  [][ConfirmOpen /\ (Key("y") \/ Key("n") \/ Key("escape"))
     => ~ConfirmOpen' /\ ~modalOpen']_vars


\* C39: one press of d dismisses at most one run, the run selected when the
\* key was pressed: no press of d takes two runs, or a run other than the
\* selected one, out of the set pending confirmation.
C39_OnePressOneRun ==
  [][completedWorkflows' # completedWorkflows /\ Key("d")
     => /\ HasSelected(State)
        /\ completedWorkflows \ completedWorkflows' = {Selected(State).id}]_vars


\* C40: the time of the last refresh changes only in the step in which a
\* cycle publishes: not when a cycle fails, and not on a dismissal, a
\* dismiss-all or a resurrection.
C40_RefreshTimeOnSuccess ==
  [][lastRefreshTime' # lastRefreshTime => CyclePublishes]_vars

====
